---- MODULE Spec2Model ----
(***************************************************************************)
(* Sign in with Chutes (Next.js): the OAuth 2.0 Authorization Code + PKCE  *)
(* flow of the route handlers login, callback, session and logout, with    *)
(* the browser's cookie jar as the session store.                          *)
(*                                                                         *)
(* A request handler is a function from the request (its query parameters  *)
(* and the cookies the browser sends), the process environment and the     *)
(* replies of the identity provider to a response; the response carries    *)
(* Set-Cookie directives, which the browser applies to its jar.  One       *)
(* action is one whole request: handler plus the browser applying the      *)
(* response.                                                               *)
(***************************************************************************)
EXTENDS Integers, Sequences, FiniteSets, TLC

VARIABLES
    env,        \* process.env: the OAuth credentials of the deployment
    jar,        \* the browser's cookie jar: name -> [val, ttl]
    attempts,   \* the login initiations so far, in order (what each sent out)
    inflight,   \* attempts initiated back to back since the last other event
    ticks,      \* number of time advances so far
    last,       \* the most recent step: request, jar before, response, calls
    hook        \* the state of useChutesSession in the page, once mounted

vars == <<env, jar, attempts, inflight, ticks, last, hook>>

----------------------------------------------------------------------------
(* Bounds of the model *)

MaxAttempts == 2    \* login initiations in one behaviour
MaxTicks == 2       \* time advances in one behaviour

----------------------------------------------------------------------------
(* JavaScript values.  Every query parameter, cookie value and message is   *)
(* a string; Null stands for null, Undefined for undefined / a missing key. *)

Null == "<null>"
Undefined == "<undefined>"

\* JS falsiness of a string-or-null-or-undefined value (`!v`)
Falsy(v) == v = Null \/ v = Undefined \/ v = ""

----------------------------------------------------------------------------
(* Cookies *)

STATE_COOKIE == "chutes_oauth_state"
VERIFIER_COOKIE == "chutes_pkce_verifier"
ACCESS_COOKIE == "chutes_access_token"
REFRESH_COOKIE == "chutes_refresh_token"
USERINFO_COOKIE == "chutes_userinfo"

CookieNames ==
    {STATE_COOKIE, VERIFIER_COOKIE, ACCESS_COOKIE, REFRESH_COOKIE, USERINFO_COOKIE}

FLOW_MAX_AGE == 300
REFRESH_MAX_AGE == 60 * 60 * 24 * 30
DEFAULT_EXPIRES_IN == 3600

AbsentCookie == [val |-> Undefined, ttl |-> 0]
EmptyJar == [n \in CookieNames |-> AbsentCookie]

\* cookieStore.get(name)?.value
CookieGet(j, name) == j[name].val

\* One Set-Cookie directive of a response: res.cookies.set(name, val, {maxAge})
SetCookie(name, val, maxAge) == [name |-> name, val |-> val, maxAge |-> maxAge]

\* The browser applies one directive: Max-Age <= 0 removes the cookie.
ApplyOne(j, sc) ==
    [j EXCEPT ![sc.name] =
        IF sc.maxAge <= 0 THEN AbsentCookie
        ELSE [val |-> sc.val, ttl |-> sc.maxAge]]

RECURSIVE ApplySetCookies(_, _)
ApplySetCookies(j, scs) ==
    IF scs = <<>> THEN j
    ELSE ApplySetCookies(ApplyOne(j, Head(scs)), Tail(scs))

\* The jar after d seconds: cookies whose lifetime has run out are gone.
Expire(j, d) ==
    [n \in CookieNames |->
        IF j[n].ttl - d <= 0 THEN AbsentCookie
        ELSE [val |-> j[n].val, ttl |-> j[n].ttl - d]]

----------------------------------------------------------------------------
(* chutesAuth: configuration and crypto material *)

MISSING_CREDENTIALS ==
    "Missing Chutes OAuth credentials. Set CHUTES_OAUTH_CLIENT_ID and CHUTES_OAUTH_CLIENT_SECRET."

IDP_BASE_URL == "https://api.chutes.ai"
DEFAULT_SCOPES == "openid profile chutes:invoke"

\* The result of a call that may throw: threw, the Error's message, the value.
Threw(msg) == [threw |-> TRUE, message |-> msg]
Returned(v) == [threw |-> FALSE, message |-> "", value |-> v]

CALLBACK_PATH == "/api/auth/chutes/callback"
LOCALHOST_REDIRECT == "http://localhost:3000/api/auth/chutes/callback"

\* The origin of the requests the deployment receives
REQUEST_ORIGIN == "https://app.example"

\* The origin of a request that reaches the deployment under another host
OTHER_ORIGIN == "https://b.example"

\* Values of NEXT_PUBLIC_APP_URL and CHUTES_OAUTH_REDIRECT_URI
PUBLIC_APP_URL == "https://www.example"
REDIRECT_OVERRIDE == "https://override.example/cb"

\* The base URLs in use, some written with a trailing slash
BaseUrls ==
    {REQUEST_ORIGIN, REQUEST_ORIGIN \o "/", OTHER_ORIGIN, PUBLIC_APP_URL, PUBLIC_APP_URL \o "/"}

\* base.replace(/\/$/, "")
StripTrailingSlash(base) ==
    IF \E b \in BaseUrls : b \o "/" = base
    THEN CHOOSE b \in BaseUrls : b \o "/" = base
    ELSE base

\* Mutant: the origin of the request is looked at before the public base URL.
buildRedirectUri_OriginFirst(e, requestOrigin) ==
    IF ~Falsy(e.CHUTES_OAUTH_REDIRECT_URI) THEN e.CHUTES_OAUTH_REDIRECT_URI
    ELSE IF ~Falsy(requestOrigin)
    THEN StripTrailingSlash(requestOrigin) \o CALLBACK_PATH
    ELSE IF ~Falsy(e.NEXT_PUBLIC_APP_URL)
    THEN StripTrailingSlash(e.NEXT_PUBLIC_APP_URL) \o CALLBACK_PATH
    ELSE LOCALHOST_REDIRECT

buildRedirectUri(e, requestOrigin) ==
    IF ~Falsy(e.CHUTES_OAUTH_REDIRECT_URI) THEN e.CHUTES_OAUTH_REDIRECT_URI
    ELSE IF ~Falsy(e.NEXT_PUBLIC_APP_URL)
    THEN StripTrailingSlash(e.NEXT_PUBLIC_APP_URL) \o CALLBACK_PATH
    ELSE IF ~Falsy(requestOrigin)
    THEN StripTrailingSlash(requestOrigin) \o CALLBACK_PATH
    ELSE LOCALHOST_REDIRECT

\* Mutant: only the client id is required.
getOAuthConfig_NoSecretCheck(e, requestOrigin) ==
    IF Falsy(e.CHUTES_OAUTH_CLIENT_ID) THEN Threw(MISSING_CREDENTIALS)
    ELSE Returned([idpBaseUrl |-> IDP_BASE_URL, clientId |-> e.CHUTES_OAUTH_CLIENT_ID,
                   clientSecret |-> IF Falsy(e.CHUTES_OAUTH_CLIENT_SECRET) THEN ""
                                    ELSE e.CHUTES_OAUTH_CLIENT_SECRET,
                   redirectUri |-> buildRedirectUri(e, requestOrigin),
                   scopes |-> IF Falsy(e.CHUTES_OAUTH_SCOPES) THEN DEFAULT_SCOPES
                              ELSE e.CHUTES_OAUTH_SCOPES])

getOAuthConfig(e, requestOrigin) ==
    LET clientId == IF Falsy(e.CHUTES_OAUTH_CLIENT_ID) THEN "" ELSE e.CHUTES_OAUTH_CLIENT_ID
        clientSecret == IF Falsy(e.CHUTES_OAUTH_CLIENT_SECRET) THEN "" ELSE e.CHUTES_OAUTH_CLIENT_SECRET
        redirectUri == buildRedirectUri(e, requestOrigin)
        scopes == IF Falsy(e.CHUTES_OAUTH_SCOPES) THEN DEFAULT_SCOPES ELSE e.CHUTES_OAUTH_SCOPES
    IN  IF Falsy(clientId) \/ Falsy(clientSecret) THEN Threw(MISSING_CREDENTIALS)
        ELSE Returned([idpBaseUrl |-> IDP_BASE_URL, clientId |-> clientId,
                       clientSecret |-> clientSecret, redirectUri |-> redirectUri,
                       scopes |-> scopes])

\* crypto.randomBytes(16).toString("hex"): the k-th value drawn is fresh.
generateState(k) == "state" \o ToString(k)

\* crypto.randomBytes(32).toString("base64url")
generateVerifier(k) == "verifier" \o ToString(k)

\* base64url(SHA-256(verifier)): a function of the verifier, one-way and
\* collision-free on the verifiers drawn.
Challenge(verifier) ==
    LET k == CHOOSE i \in 1..(MaxAttempts + 1) : generateVerifier(i) = verifier
    IN  "challenge" \o ToString(k)

generatePkce(k) ==
    [verifier |-> generateVerifier(k), challenge |-> Challenge(generateVerifier(k))]

\* scopes.replace(/\s+/g, " "): runs of whitespace become one space
CollapseWhitespace(scopes) ==
    IF scopes = "openid  profile" THEN "openid profile" ELSE scopes

\* Mutant: the client secret is sent along in the authorize URL.
buildAuthorizeUrl_WithSecret(state, codeChallenge, config) ==
    [endpoint |-> config.idpBaseUrl \o "/idp/authorize",
     response_type |-> "code",
     client_id |-> config.clientId,
     client_secret |-> config.clientSecret,
     redirect_uri |-> config.redirectUri,
     scope |-> CollapseWhitespace(config.scopes),
     state |-> state,
     code_challenge |-> codeChallenge,
     code_challenge_method |-> "S256"]

buildAuthorizeUrl(state, codeChallenge, config) ==
    [endpoint |-> config.idpBaseUrl \o "/idp/authorize",
     response_type |-> "code",
     client_id |-> config.clientId,
     redirect_uri |-> config.redirectUri,
     scope |-> CollapseWhitespace(config.scopes),
     state |-> state,
     code_challenge |-> codeChallenge,
     code_challenge_method |-> "S256"]

----------------------------------------------------------------------------
(* The identity provider, as the handlers see it: the reply to each fetch.  *)

AccessTokenOf(k) == "access" \o ToString(k)
RefreshTokenOf(k) == "refresh" \o ToString(k)

\* The profile the userinfo endpoint returns for a bearer token.
UserOf(accessToken) == "user-of-" \o accessToken

FETCH_FAILED == "fetch failed"
JSON_SYNTAX_ERROR == "Unexpected token < in JSON"
TOKEN_EXCHANGE_FAILED == "Token exchange failed"

\* expires_in is a number or missing: <<n>> or <<>>
ExpiresInValues == {<<>>, <<-1>>, <<0>>, <<120>>}

TokenReply(fetch, ok, json, desc, err, at, rt, exp) ==
    [fetch |-> fetch, ok |-> ok, json |-> json, error_description |-> desc,
     error |-> err, access_token |-> at, refresh_token |-> rt, expires_in |-> exp]

\* The replies the token endpoint may give to the exchange of attempt k's code
\* (k = 0: a code of no attempt); the tokens it issues are fresh.
TokenReplies(k) ==
    {TokenReply("throws", FALSE, "none", Undefined, Undefined, Undefined, Undefined, <<>>)}
    \cup {TokenReply("responds", ok, "invalid", Undefined, Undefined, Undefined, Undefined, <<>>) :
              ok \in BOOLEAN}
    \cup {TokenReply("responds", FALSE, "object", d[1], d[2], Undefined, Undefined, <<>>) :
              d \in {<<"Code expired", "invalid_grant">>, <<Undefined, "invalid_grant">>,
                     <<Undefined, Undefined>>}}
    \cup {TokenReply("responds", TRUE, "object", Undefined, Undefined, at, RefreshTokenOf(k), <<>>) :
              at \in {Undefined, ""}}
    \cup {TokenReply("responds", TRUE, "object", Undefined, Undefined,
                      AccessTokenOf(k), RefreshTokenOf(k), exp) : exp \in ExpiresInValues}
    \cup {TokenReply("responds", TRUE, "object", Undefined, Undefined,
                      AccessTokenOf(k), Undefined, exp) : exp \in {<<>>, <<120>>}}

UserinfoReplies == {"throws", "not_ok", "ok_null", "ok_profile"}

\* Mutant: the HTTP status of the token response is not checked.
exchangeCodeForTokens_IgnoresStatus(reply) ==
    IF reply.fetch = "throws" THEN Threw(FETCH_FAILED)
    ELSE IF reply.json = "invalid" THEN Threw(JSON_SYNTAX_ERROR)
    ELSE Returned([access_token |-> reply.access_token,
                   refresh_token |-> reply.refresh_token,
                   expires_in |-> reply.expires_in])

\* Mutant: the error code is preferred over the error description.
exchangeCodeForTokens_ErrorCodeFirst(reply) ==
    IF reply.fetch = "throws" THEN Threw(FETCH_FAILED)
    ELSE IF reply.json = "invalid" THEN Threw(JSON_SYNTAX_ERROR)
    ELSE IF ~reply.ok THEN
        Threw(IF ~Falsy(reply.error) THEN reply.error
              ELSE IF ~Falsy(reply.error_description) THEN reply.error_description
              ELSE TOKEN_EXCHANGE_FAILED)
    ELSE Returned([access_token |-> reply.access_token,
                   refresh_token |-> reply.refresh_token,
                   expires_in |-> reply.expires_in])

\* POST {idpBaseUrl}/idp/token, grant_type=authorization_code
exchangeCodeForTokens(reply) ==
    IF reply.fetch = "throws" THEN Threw(FETCH_FAILED)
    ELSE IF reply.json = "invalid" THEN Threw(JSON_SYNTAX_ERROR)
    ELSE IF ~reply.ok THEN
        Threw(IF ~Falsy(reply.error_description) THEN reply.error_description
              ELSE IF ~Falsy(reply.error) THEN reply.error
              ELSE TOKEN_EXCHANGE_FAILED)
    ELSE Returned([access_token |-> reply.access_token,
                   refresh_token |-> reply.refresh_token,
                   expires_in |-> reply.expires_in])

\* The form body exchangeCodeForTokens sends.
TokenRequest(code, codeVerifier, config) ==
    [endpoint |-> config.idpBaseUrl \o "/idp/token",
     grant_type |-> "authorization_code",
     code |-> code,
     redirect_uri |-> config.redirectUri,
     client_id |-> config.clientId,
     client_secret |-> config.clientSecret,
     code_verifier |-> codeVerifier]

\* GET {idpBaseUrl}/idp/userinfo with the bearer token
fetchUserInfo(accessToken, reply) ==
    IF reply = "throws" THEN Threw(FETCH_FAILED)
    ELSE IF reply = "not_ok" THEN Returned(Null)
    ELSE IF reply = "ok_null" THEN Returned(Null)
    ELSE Returned(UserOf(accessToken))

UserinfoRequest(config, accessToken) ==
    [endpoint |-> config.idpBaseUrl \o "/idp/userinfo", bearer |-> accessToken]

\* JSON.stringify of a profile, and JSON.parse of a cookie value
JsonStringify(user) == "{sub:" \o user \o "}"

Profiles == {UserOf(AccessTokenOf(k)) : k \in 0..(MaxAttempts + 1)}

JsonParse(text) ==
    IF \E u \in Profiles : JsonStringify(u) = text
    THEN Returned(CHOOSE u \in Profiles : JsonStringify(u) = text)
    ELSE Threw(JSON_SYNTAX_ERROR)

----------------------------------------------------------------------------
(* Responses *)

HomeUrl == [endpoint |-> "/"]

\* NextResponse.json(body, {status})
JsonResponse(body, status) ==
    [kind |-> "json", status |-> status, body |-> body, setCookies |-> <<>>]

\* NextResponse.redirect(url), then res.cookies.set(...) in order
RedirectResponse(url, setCookies) ==
    [kind |-> "redirect", status |-> 307, location |-> url, setCookies |-> setCookies]

\* What one run of a handler did: its response, and the calls it made.
Handled(resp, configCalls, cookieReads, tokenRequests, userinfoRequests) ==
    [resp |-> resp, configCalls |-> configCalls, cookieReads |-> cookieReads,
     tokenRequests |-> tokenRequests, userinfoRequests |-> userinfoRequests]

----------------------------------------------------------------------------
(* GET /api/auth/chutes/callback *)

MISSING_CODE_OR_STATE == "Missing code or state"
INVALID_STATE == "Invalid state"
MISSING_PKCE_VERIFIER == "Missing PKCE verifier"
NO_ACCESS_TOKEN == "No access token returned"

\* Mutant: the provider's error is not looked at.
ProviderError_Never(error) == FALSE

\* if (error)
ProviderError(error) == ~Falsy(error)

\* Mutant: only the code is required.
MissingCodeOrState_CodeOnly(code, state) == Falsy(code)

\* if (!code || !state)
MissingCodeOrState(code, state) == Falsy(code) \/ Falsy(state)

\* Mutant: the returned state is not compared with the stored one.
InvalidState_NoComparison(state, storedState) == Falsy(storedState)

\* Mutant: a missing stored state passes.
InvalidState_AbsentPasses(state, storedState) ==
    ~Falsy(storedState) /\ state # storedState

\* if (!storedState || state !== storedState)
InvalidState(state, storedState) == Falsy(storedState) \/ state # storedState

\* Mutant: the verifier is not required.
MissingVerifier_Never(codeVerifier) == FALSE

\* if (!codeVerifier)
MissingVerifier(codeVerifier) == Falsy(codeVerifier)

\* Mutant: only a missing access_token is refused, an empty one passes.
NoAccessToken_UndefinedOnly(accessToken) == accessToken = Undefined

\* if (!accessToken)
NoAccessToken(accessToken) == Falsy(accessToken)

\* Mutant: the lifetime is always the default, whatever the response carries.
ExpiresIn_AlwaysDefault(tokenResult) == DEFAULT_EXPIRES_IN

\* tokenResult.expires_in ?? 3600
ExpiresIn(tokenResult) ==
    IF tokenResult.expires_in = <<>> THEN DEFAULT_EXPIRES_IN
    ELSE tokenResult.expires_in[1]

\* Mutant: the profile is cached for as long as the refresh token.
SessionCookies_ProfileOutlives(tokenResult, userinfo) ==
    <<SetCookie(ACCESS_COOKIE, tokenResult.access_token, ExpiresIn(tokenResult))>>
    \o (IF ~Falsy(tokenResult.refresh_token)
        THEN <<SetCookie(REFRESH_COOKIE, tokenResult.refresh_token, REFRESH_MAX_AGE)>>
        ELSE <<>>)
    \o (IF ~userinfo.threw /\ ~Falsy(userinfo.value)
        THEN <<SetCookie(USERINFO_COOKIE, JsonStringify(userinfo.value), REFRESH_MAX_AGE)>>
        ELSE <<>>)

\* The cookies the success path sets, in the order of the code.
SessionCookies(tokenResult, userinfo) ==
    <<SetCookie(ACCESS_COOKIE, tokenResult.access_token, ExpiresIn(tokenResult))>>
    \o (IF ~Falsy(tokenResult.refresh_token)
        THEN <<SetCookie(REFRESH_COOKIE, tokenResult.refresh_token, REFRESH_MAX_AGE)>>
        ELSE <<>>)
    \o (IF ~userinfo.threw /\ ~Falsy(userinfo.value)
        THEN <<SetCookie(USERINFO_COOKIE, JsonStringify(userinfo.value), ExpiresIn(tokenResult))>>
        ELSE <<>>)

\* Mutant: the success path clears the verifier only.
ClearFlowCookies_VerifierOnly ==
    <<SetCookie(VERIFIER_COOKIE, "", 0)>>

\* Mutant: the success path clears the state only.
ClearFlowCookies_StateOnly ==
    <<SetCookie(STATE_COOKIE, "", 0)>>

\* Clear temporary OAuth cookies
ClearFlowCookies ==
    <<SetCookie(STATE_COOKIE, "", 0), SetCookie(VERIFIER_COOKIE, "", 0)>>

\* Mutant: a failed token exchange is tried a second time.
CallbackExchange_Retries(rq, config, codeVerifier, tokenReply, userinfoReply) ==
    LET tokenRequest == TokenRequest(rq.code, codeVerifier, config)
        tokenResult == exchangeCodeForTokens(tokenReply)
    IN  IF tokenResult.threw
        THEN Handled(JsonResponse([error |-> tokenResult.message], 500),
                     1, 2, <<tokenRequest, tokenRequest>>, <<>>)
        ELSE IF NoAccessToken(tokenResult.value.access_token)
        THEN Handled(JsonResponse([error |-> NO_ACCESS_TOKEN], 500),
                     1, 2, <<tokenRequest>>, <<>>)
        ELSE LET accessToken == tokenResult.value.access_token
                 userinfo == fetchUserInfo(accessToken, userinfoReply)
             IN  Handled(RedirectResponse(HomeUrl,
                             SessionCookies(tokenResult.value, userinfo) \o ClearFlowCookies),
                         1, 2, <<tokenRequest>>,
                         <<UserinfoRequest(config, accessToken)>>)

\* Mutant: the exchange is not inside the try block; what it throws escapes
\* the handler and the framework answers for it.
CallbackExchange_Uncaught(rq, config, codeVerifier, tokenReply, userinfoReply) ==
    LET tokenRequest == TokenRequest(rq.code, codeVerifier, config)
        tokenResult == exchangeCodeForTokens(tokenReply)
    IN  IF tokenResult.threw
        THEN Handled([kind |-> "uncaught", status |-> 500,
                      body |-> [thrown |-> tokenResult.message], setCookies |-> <<>>],
                     1, 2, <<tokenRequest>>, <<>>)
        ELSE IF NoAccessToken(tokenResult.value.access_token)
        THEN Handled(JsonResponse([error |-> NO_ACCESS_TOKEN], 500),
                     1, 2, <<tokenRequest>>, <<>>)
        ELSE LET accessToken == tokenResult.value.access_token
                 userinfo == fetchUserInfo(accessToken, userinfoReply)
             IN  Handled(RedirectResponse(HomeUrl,
                             SessionCookies(tokenResult.value, userinfo) \o ClearFlowCookies),
                         1, 2, <<tokenRequest>>,
                         <<UserinfoRequest(config, accessToken)>>)

\* From the token exchange on: lines 64-120
CallbackExchange(rq, config, codeVerifier, tokenReply, userinfoReply) ==
    LET tokenRequest == TokenRequest(rq.code, codeVerifier, config)
        tokenResult == exchangeCodeForTokens(tokenReply)
    IN  IF tokenResult.threw
        THEN Handled(JsonResponse([error |-> tokenResult.message], 500),
                     1, 2, <<tokenRequest>>, <<>>)
        ELSE IF NoAccessToken(tokenResult.value.access_token)
        THEN Handled(JsonResponse([error |-> NO_ACCESS_TOKEN], 500),
                     1, 2, <<tokenRequest>>, <<>>)
        ELSE LET accessToken == tokenResult.value.access_token
                 userinfo == fetchUserInfo(accessToken, userinfoReply)
             IN  Handled(RedirectResponse(HomeUrl,
                             SessionCookies(tokenResult.value, userinfo) \o ClearFlowCookies),
                         1, 2, <<tokenRequest>>,
                         <<UserinfoRequest(config, accessToken)>>)

\* Mutant: the verifier is required before the state is compared.
CallbackGET_VerifierFirst(rq, j, e, tokenReply, userinfoReply) ==
    IF ProviderError(rq.error)
    THEN Handled(JsonResponse([error |-> rq.error,
                               errorDescription |-> rq.error_description], 400),
                 0, 0, <<>>, <<>>)
    ELSE LET config == getOAuthConfig(e, REQUEST_ORIGIN) IN
         IF config.threw
         THEN Handled(JsonResponse([error |-> config.message], 500), 1, 0, <<>>, <<>>)
         ELSE LET storedState == CookieGet(j, STATE_COOKIE)
                  codeVerifier == CookieGet(j, VERIFIER_COOKIE)
              IN  IF MissingCodeOrState(rq.code, rq.state)
                  THEN Handled(JsonResponse([error |-> MISSING_CODE_OR_STATE], 400),
                               1, 2, <<>>, <<>>)
                  ELSE IF MissingVerifier(codeVerifier)
                  THEN Handled(JsonResponse([error |-> MISSING_PKCE_VERIFIER], 400),
                               1, 2, <<>>, <<>>)
                  ELSE IF InvalidState(rq.state, storedState)
                  THEN Handled(JsonResponse([error |-> INVALID_STATE], 400),
                               1, 2, <<>>, <<>>)
                  ELSE CallbackExchange(rq, config.value, codeVerifier,
                                        tokenReply, userinfoReply)

\* Mutant: a callback whose state does not match also ends the session.
CallbackGET_RejectionSignsOut(rq, j, e, tokenReply, userinfoReply) ==
    IF ProviderError(rq.error)
    THEN Handled(JsonResponse([error |-> rq.error,
                               errorDescription |-> rq.error_description], 400),
                 0, 0, <<>>, <<>>)
    ELSE LET config == getOAuthConfig(e, REQUEST_ORIGIN) IN
         IF config.threw
         THEN Handled(JsonResponse([error |-> config.message], 500), 1, 0, <<>>, <<>>)
         ELSE LET storedState == CookieGet(j, STATE_COOKIE)
                  codeVerifier == CookieGet(j, VERIFIER_COOKIE)
              IN  IF MissingCodeOrState(rq.code, rq.state)
                  THEN Handled(JsonResponse([error |-> MISSING_CODE_OR_STATE], 400),
                               1, 2, <<>>, <<>>)
                  ELSE IF InvalidState(rq.state, storedState)
                  THEN Handled([kind |-> "json", status |-> 400,
                                body |-> [error |-> INVALID_STATE],
                                setCookies |-> <<SetCookie(ACCESS_COOKIE, "", 0),
                                                 SetCookie(REFRESH_COOKIE, "", 0),
                                                 SetCookie(USERINFO_COOKIE, "", 0)>>],
                               1, 2, <<>>, <<>>)
                  ELSE IF MissingVerifier(codeVerifier)
                  THEN Handled(JsonResponse([error |-> MISSING_PKCE_VERIFIER], 400),
                               1, 2, <<>>, <<>>)
                  ELSE CallbackExchange(rq, config.value, codeVerifier,
                                        tokenReply, userinfoReply)

\* Mutant: the callback resolves the configuration without the origin of
\* its request, as the session route does.
CallbackGETAt_NoOrigin(rq, j, e, tokenReply, userinfoReply, requestOrigin) ==
    IF ProviderError(rq.error)
    THEN Handled(JsonResponse([error |-> rq.error,
                               errorDescription |-> rq.error_description], 400),
                 0, 0, <<>>, <<>>)
    ELSE LET config == getOAuthConfig(e, Undefined) IN
         IF config.threw
         THEN Handled(JsonResponse([error |-> config.message], 500), 1, 0, <<>>, <<>>)
         ELSE LET storedState == CookieGet(j, STATE_COOKIE)
                  codeVerifier == CookieGet(j, VERIFIER_COOKIE)
              IN  IF MissingCodeOrState(rq.code, rq.state)
                  THEN Handled(JsonResponse([error |-> MISSING_CODE_OR_STATE], 400),
                               1, 2, <<>>, <<>>)
                  ELSE IF InvalidState(rq.state, storedState)
                  THEN Handled(JsonResponse([error |-> INVALID_STATE], 400),
                               1, 2, <<>>, <<>>)
                  ELSE IF MissingVerifier(codeVerifier)
                  THEN Handled(JsonResponse([error |-> MISSING_PKCE_VERIFIER], 400),
                               1, 2, <<>>, <<>>)
                  ELSE CallbackExchange(rq, config.value, codeVerifier,
                                        tokenReply, userinfoReply)

\* export async function GET(req) of the callback route, for a request whose
\* URL has the origin requestOrigin (new URL(req.url).origin)
CallbackGETAt(rq, j, e, tokenReply, userinfoReply, requestOrigin) ==
    IF ProviderError(rq.error)
    THEN Handled(JsonResponse([error |-> rq.error,
                               errorDescription |-> rq.error_description], 400),
                 0, 0, <<>>, <<>>)
    ELSE LET config == getOAuthConfig(e, requestOrigin) IN
         IF config.threw
         THEN Handled(JsonResponse([error |-> config.message], 500), 1, 0, <<>>, <<>>)
         ELSE LET storedState == CookieGet(j, STATE_COOKIE)
                  codeVerifier == CookieGet(j, VERIFIER_COOKIE)
              IN  IF MissingCodeOrState(rq.code, rq.state)
                  THEN Handled(JsonResponse([error |-> MISSING_CODE_OR_STATE], 400),
                               1, 2, <<>>, <<>>)
                  ELSE IF InvalidState(rq.state, storedState)
                  THEN Handled(JsonResponse([error |-> INVALID_STATE], 400),
                               1, 2, <<>>, <<>>)
                  ELSE IF MissingVerifier(codeVerifier)
                  THEN Handled(JsonResponse([error |-> MISSING_PKCE_VERIFIER], 400),
                               1, 2, <<>>, <<>>)
                  ELSE CallbackExchange(rq, config.value, codeVerifier,
                                        tokenReply, userinfoReply)

\* The callback route for a request that arrives at REQUEST_ORIGIN.
CallbackGET(rq, j, e, tokenReply, userinfoReply) ==
    CallbackGETAt(rq, j, e, tokenReply, userinfoReply, REQUEST_ORIGIN)

----------------------------------------------------------------------------
(* GET /api/auth/chutes/login *)

\* Mutant: the verifier itself is sent as the code challenge.
LoginGET_VerifierAsChallenge(e, k) ==
    LET config == getOAuthConfig(e, REQUEST_ORIGIN) IN
    IF config.threw
    THEN Handled(JsonResponse([error |-> config.message], 500), 1, 0, <<>>, <<>>)
    ELSE Handled(RedirectResponse(
                     buildAuthorizeUrl(generateState(k), generateVerifier(k), config.value),
                     <<SetCookie(STATE_COOKIE, generateState(k), FLOW_MAX_AGE),
                       SetCookie(VERIFIER_COOKIE, generateVerifier(k), FLOW_MAX_AGE)>>),
                 1, 0, <<>>, <<>>)

\* Mutant: the flow material lives as long as a default access token.
LoginGET_LongLivedMaterial(e, k) ==
    LET config == getOAuthConfig(e, REQUEST_ORIGIN) IN
    IF config.threw
    THEN Handled(JsonResponse([error |-> config.message], 500), 1, 0, <<>>, <<>>)
    ELSE Handled(RedirectResponse(
                     buildAuthorizeUrl(generateState(k), generatePkce(k).challenge, config.value),
                     <<SetCookie(STATE_COOKIE, generateState(k), DEFAULT_EXPIRES_IN),
                       SetCookie(VERIFIER_COOKIE, generateVerifier(k), DEFAULT_EXPIRES_IN)>>),
                 1, 0, <<>>, <<>>)

\* Mutant: starting a login ends the current session.
LoginGET_EndsSession(e, k) ==
    LET config == getOAuthConfig(e, REQUEST_ORIGIN) IN
    IF config.threw
    THEN Handled(JsonResponse([error |-> config.message], 500), 1, 0, <<>>, <<>>)
    ELSE Handled(RedirectResponse(
                     buildAuthorizeUrl(generateState(k), generatePkce(k).challenge, config.value),
                     <<SetCookie(ACCESS_COOKIE, "", 0),
                       SetCookie(STATE_COOKIE, generateState(k), FLOW_MAX_AGE),
                       SetCookie(VERIFIER_COOKIE, generateVerifier(k), FLOW_MAX_AGE)>>),
                 1, 0, <<>>, <<>>)

\* export async function GET(req) of the login route, for a request whose
\* URL has the origin requestOrigin; k numbers the random draws.
LoginGETAt(e, k, requestOrigin) ==
    LET config == getOAuthConfig(e, requestOrigin) IN
    IF config.threw
    THEN Handled(JsonResponse([error |-> config.message], 500), 1, 0, <<>>, <<>>)
    ELSE LET state == generateState(k)
             pkce == generatePkce(k)
             authorizeUrl == buildAuthorizeUrl(state, pkce.challenge, config.value)
         IN  Handled(RedirectResponse(authorizeUrl,
                         <<SetCookie(STATE_COOKIE, state, FLOW_MAX_AGE),
                           SetCookie(VERIFIER_COOKIE, pkce.verifier, FLOW_MAX_AGE)>>),
                     1, 0, <<>>, <<>>)

\* The login route for a request that arrives at REQUEST_ORIGIN.
LoginGET(e, k) == LoginGETAt(e, k, REQUEST_ORIGIN)

----------------------------------------------------------------------------
(* GET /api/auth/chutes/session *)

\* cookieStore.get(name)?.value || null
CookieOrNull(j, name) == IF Falsy(CookieGet(j, name)) THEN Null ELSE CookieGet(j, name)

\* The cached profile: JSON.parse of the cookie, null when it throws
CachedUser(storedUser) ==
    IF Falsy(storedUser) THEN Null
    ELSE LET parsed == JsonParse(storedUser)
         IN  IF parsed.threw THEN Null ELSE parsed.value

\* Mutant: a stored refresh token counts as a session.
SessionGET_RefreshCounts(j, e, userinfoReply) ==
    LET accessToken == CookieOrNull(j, ACCESS_COOKIE)
        refreshToken == CookieOrNull(j, REFRESH_COOKIE)
    IN  IF Falsy(accessToken) /\ Falsy(refreshToken)
        THEN Handled(JsonResponse([signedIn |-> FALSE], 200), 0, 2, <<>>, <<>>)
        ELSE Handled(JsonResponse([signedIn |-> TRUE,
                                   user |-> CachedUser(CookieOrNull(j, USERINFO_COOKIE))], 200),
                     0, 2, <<>>, <<>>)

\* Mutant: the lazy fetch is not wrapped in try/catch; a network error
\* becomes a 500.
SessionGET_Uncaught(j, e, userinfoReply) ==
    LET accessToken == CookieOrNull(j, ACCESS_COOKIE)
        storedUser == CookieOrNull(j, USERINFO_COOKIE)
    IN  IF Falsy(accessToken)
        THEN Handled(JsonResponse([signedIn |-> FALSE], 200), 0, 2, <<>>, <<>>)
        ELSE IF ~Falsy(CachedUser(storedUser))
        THEN Handled(JsonResponse([signedIn |-> TRUE, user |-> CachedUser(storedUser)], 200),
                     0, 2, <<>>, <<>>)
        ELSE LET config == getOAuthConfig(e, Undefined) IN
             IF config.threw
             THEN Handled(JsonResponse([error |-> config.message], 500), 1, 2, <<>>, <<>>)
             ELSE LET fetched == fetchUserInfo(accessToken, userinfoReply)
                  IN  IF fetched.threw
                      THEN Handled(JsonResponse([error |-> fetched.message], 500),
                                   1, 2, <<>>, <<UserinfoRequest(config.value, accessToken)>>)
                      ELSE Handled(JsonResponse([signedIn |-> TRUE, user |-> fetched.value],
                                                200),
                                   1, 2, <<>>, <<UserinfoRequest(config.value, accessToken)>>)

\* Mutant: a profile obtained by the lazy fetch is cached.
SessionGET_CachesFetched(j, e, userinfoReply) ==
    LET accessToken == CookieOrNull(j, ACCESS_COOKIE)
        storedUser == CookieOrNull(j, USERINFO_COOKIE)
    IN  IF Falsy(accessToken)
        THEN Handled(JsonResponse([signedIn |-> FALSE], 200), 0, 2, <<>>, <<>>)
        ELSE IF ~Falsy(CachedUser(storedUser))
        THEN Handled(JsonResponse([signedIn |-> TRUE, user |-> CachedUser(storedUser)], 200),
                     0, 2, <<>>, <<>>)
        ELSE LET config == getOAuthConfig(e, Undefined) IN
             IF config.threw
             THEN Handled(JsonResponse([signedIn |-> TRUE, user |-> Null], 200),
                          1, 2, <<>>, <<>>)
             ELSE LET fetched == fetchUserInfo(accessToken, userinfoReply)
                      user == IF fetched.threw THEN Null ELSE fetched.value
                  IN  Handled([kind |-> "json", status |-> 200,
                               body |-> [signedIn |-> TRUE, user |-> user],
                               setCookies |->
                                   IF Falsy(user) THEN <<>>
                                   ELSE <<SetCookie(USERINFO_COOKIE, JsonStringify(user),
                                                    DEFAULT_EXPIRES_IN)>>],
                              1, 2, <<>>, <<UserinfoRequest(config.value, accessToken)>>)

\* Mutant: JSON.parse of the cached profile is not wrapped in try/catch; an
\* entry that does not parse becomes a 500.
SessionGET_ParseUncaught(j, e, userinfoReply) ==
    LET accessToken == CookieOrNull(j, ACCESS_COOKIE)
        storedUser == CookieOrNull(j, USERINFO_COOKIE)
    IN  IF Falsy(accessToken)
        THEN Handled(JsonResponse([signedIn |-> FALSE], 200), 0, 2, <<>>, <<>>)
        ELSE IF ~Falsy(storedUser) /\ JsonParse(storedUser).threw
        THEN Handled(JsonResponse([error |-> JSON_SYNTAX_ERROR], 500), 0, 2, <<>>, <<>>)
        ELSE IF ~Falsy(CachedUser(storedUser))
        THEN Handled(JsonResponse([signedIn |-> TRUE, user |-> CachedUser(storedUser)], 200),
                     0, 2, <<>>, <<>>)
        ELSE LET config == getOAuthConfig(e, Undefined) IN
             IF config.threw
             THEN Handled(JsonResponse([signedIn |-> TRUE, user |-> Null], 200),
                          1, 2, <<>>, <<>>)
             ELSE LET fetched == fetchUserInfo(accessToken, userinfoReply)
                  IN  Handled(JsonResponse(
                                  [signedIn |-> TRUE,
                                   user |-> IF fetched.threw THEN Null ELSE fetched.value],
                                  200),
                              1, 2, <<>>, <<UserinfoRequest(config.value, accessToken)>>)

SessionGET(j, e, userinfoReply) ==
    LET accessToken == CookieOrNull(j, ACCESS_COOKIE)
        storedUser == CookieOrNull(j, USERINFO_COOKIE)
    IN  IF Falsy(accessToken)
        THEN Handled(JsonResponse([signedIn |-> FALSE], 200), 0, 2, <<>>, <<>>)
        ELSE IF ~Falsy(CachedUser(storedUser))
        THEN Handled(JsonResponse([signedIn |-> TRUE, user |-> CachedUser(storedUser)], 200),
                     0, 2, <<>>, <<>>)
        ELSE LET config == getOAuthConfig(e, Undefined) IN
             IF config.threw
             THEN Handled(JsonResponse([signedIn |-> TRUE, user |-> Null], 200),
                          1, 2, <<>>, <<>>)
             ELSE LET fetched == fetchUserInfo(accessToken, userinfoReply)
                  IN  Handled(JsonResponse(
                                  [signedIn |-> TRUE,
                                   user |-> IF fetched.threw THEN Null ELSE fetched.value],
                                  200),
                              1, 2, <<>>, <<UserinfoRequest(config.value, accessToken)>>)

----------------------------------------------------------------------------
(* POST /api/auth/chutes/logout *)

\* Mutant: the PKCE verifier cookie is not cleared.
LogoutPOST_KeepsVerifier ==
    Handled([kind |-> "json", status |-> 200, body |-> [ok |-> TRUE],
             setCookies |-> <<SetCookie(ACCESS_COOKIE, "", 0),
                              SetCookie(REFRESH_COOKIE, "", 0),
                              SetCookie(USERINFO_COOKIE, "", 0),
                              SetCookie(STATE_COOKIE, "", 0)>>],
            0, 0, <<>>, <<>>)

\* Mutant: logout ends the session and leaves the flow material alone.
LogoutPOST_SessionOnly ==
    Handled([kind |-> "json", status |-> 200, body |-> [ok |-> TRUE],
             setCookies |-> <<SetCookie(ACCESS_COOKIE, "", 0),
                              SetCookie(REFRESH_COOKIE, "", 0),
                              SetCookie(USERINFO_COOKIE, "", 0)>>],
            0, 0, <<>>, <<>>)

LogoutPOST ==
    Handled([kind |-> "json", status |-> 200, body |-> [ok |-> TRUE],
             setCookies |-> <<SetCookie(ACCESS_COOKIE, "", 0),
                              SetCookie(REFRESH_COOKIE, "", 0),
                              SetCookie(USERINFO_COOKIE, "", 0),
                              SetCookie(STATE_COOKIE, "", 0),
                              SetCookie(VERIFIER_COOKIE, "", 0)>>],
            0, 0, <<>>, <<>>)

----------------------------------------------------------------------------
(* The state machine *)

NoRequest == [code |-> Null, state |-> Null, error |-> Null, error_description |-> Null]
NoTokenReply == TokenReply("none", FALSE, "none", Undefined, Undefined, Undefined, Undefined, <<>>)
NoUserinfoReply == "none"

\* The record of a step: the operation, its request, the jar and the
\* in-flight attempts before it, the provider's replies, what the handler
\* did, and the seconds that have passed since.
Step(op, rq, tokenReply, userinfoReply, h) ==
    [op |-> op, rq |-> rq, pre |-> jar, inflight |-> inflight,
     tokenReply |-> tokenReply, userinfoReply |-> userinfoReply, h |-> h,
     elapsed |-> 0]

NoHandler == Handled(JsonResponse([none |-> TRUE], 0), 0, 0, <<>>, <<>>)

\* process.env: the credentials; no redirect URI, public base URL or scopes
\* are set, so the redirect URI comes from the origin of the request.
Env(clientId, clientSecret) ==
    [CHUTES_OAUTH_CLIENT_ID |-> clientId,
     CHUTES_OAUTH_CLIENT_SECRET |-> clientSecret,
     CHUTES_OAUTH_REDIRECT_URI |-> Undefined,
     NEXT_PUBLIC_APP_URL |-> Undefined,
     CHUTES_OAUTH_SCOPES |-> Undefined]

\* The credentials are set, or one of them is missing.
EnvValues ==
    {Env("cid_test", "csc_test"), Env(Undefined, "csc_test"), Env("cid_test", Undefined)}

\* No page that uses the hook is open.
NotMounted == [mounted |-> FALSE]

Init ==
    /\ env \in EnvValues
    /\ hook = NotMounted
    /\ jar = EmptyJar
    /\ attempts = <<>>
    /\ inflight = {}
    /\ ticks = 0
    /\ last = [op |-> "init", rq |-> NoRequest, pre |-> EmptyJar, inflight |-> {},
               tokenReply |-> NoTokenReply, userinfoReply |-> NoUserinfoReply,
               h |-> NoHandler, elapsed |-> 0]

\* The browser follows the sign-in link.
Login ==
    /\ Len(attempts) < MaxAttempts
    /\ LET k == Len(attempts) + 1
           h == LoginGET(env, k)
       IN  /\ jar' = ApplySetCookies(jar, h.resp.setCookies)
           /\ IF h.resp.kind = "redirect"
              THEN /\ attempts' = Append(attempts,
                                         [state |-> generateState(k),
                                          verifier |-> generateVerifier(k),
                                          authorizeUrl |-> h.resp.location,
                                          age |-> 0,
                                          loggedOut |-> FALSE])
                   /\ inflight' = inflight \cup {k}
              ELSE /\ attempts' = attempts
                   /\ inflight' = {}
           /\ last' = Step("login", NoRequest, NoTokenReply, NoUserinfoReply, h)
    /\ UNCHANGED <<env, ticks, hook>>

\* The states a callback request may carry: none, an empty one, a forged
\* one, or the state of a login initiated so far.
RequestStates == {Null, "", "forged"} \cup {attempts[i].state : i \in 1..Len(attempts)}

CallbackRequest(code, state, error, error_description) ==
    [code |-> code, state |-> state, error |-> error,
     error_description |-> error_description]

\* The query parameters a callback request may carry.
CallbackRequests ==
    {CallbackRequest(c, s, Null, Null) : c \in {Null, "", "code1"}, s \in RequestStates}
    \cup {CallbackRequest("code1", s, "", Null) : s \in RequestStates \ {Null, ""}}
    \cup {CallbackRequest(Null, Null, "access_denied", d) : d \in {Null, "User denied access"}}
    \cup {CallbackRequest("code1", s, "access_denied", "User denied access") :
              s \in RequestStates \ {Null, ""}}

\* The attempt whose state a request carries (0: none).
AttemptOf(state) ==
    IF \E i \in 1..Len(attempts) : attempts[i].state = state
    THEN CHOOSE i \in 1..Len(attempts) : attempts[i].state = state
    ELSE 0

\* A request arrives at the callback route; the provider replies to the
\* fetches the handler makes (and only to those).
Callback ==
    \E rq \in CallbackRequests :
        LET asked == CallbackGET(rq, jar, env, NoTokenReply, NoUserinfoReply)
        IN  \E tokenReply \in (IF asked.tokenRequests = <<>> THEN {NoTokenReply}
                               ELSE TokenReplies(AttemptOf(rq.state))) :
            \E userinfoReply \in
                   (IF CallbackGET(rq, jar, env, tokenReply, NoUserinfoReply).userinfoRequests = <<>>
                    THEN {NoUserinfoReply} ELSE UserinfoReplies) :
                LET h == CallbackGET(rq, jar, env, tokenReply, userinfoReply)
                IN  /\ jar' = ApplySetCookies(jar, h.resp.setCookies)
                    /\ inflight' = {}
                    /\ last' = Step("callback", rq, tokenReply, userinfoReply, h)
                    /\ UNCHANGED <<env, attempts, ticks, hook>>

\* The client hook (or anyone) queries the session.
Session ==
    \E userinfoReply \in
           (IF SessionGET(jar, env, NoUserinfoReply).userinfoRequests = <<>>
            THEN {NoUserinfoReply} ELSE UserinfoReplies) :
        LET h == SessionGET(jar, env, userinfoReply)
        IN  /\ jar' = ApplySetCookies(jar, h.resp.setCookies)
            /\ last' = Step("session", NoRequest, NoTokenReply, userinfoReply, h)
            /\ UNCHANGED <<env, attempts, inflight, ticks, hook>>

\* The browser posts to the logout route; every login initiated so far is
\* marked as followed by a logout.
Logout ==
    /\ jar' = ApplySetCookies(jar, LogoutPOST.resp.setCookies)
    /\ inflight' = {}
    /\ attempts' = [i \in 1..Len(attempts) |->
                        [attempts[i] EXCEPT !.loggedOut = TRUE]]
    /\ last' = Step("logout", NoRequest, NoTokenReply, NoUserinfoReply, LogoutPOST)
    /\ UNCHANGED <<env, ticks, hook>>

\* Time passes: the browser drops the cookies whose Max-Age has run out.
\* The delays are the lifetimes in use: two minutes (a short expires_in),
\* the flow material's, the default token lifetime, the refresh token's.
Delays == {120, FLOW_MAX_AGE, DEFAULT_EXPIRES_IN, REFRESH_MAX_AGE}

\* The most recent request stays the most recent one; it and the logins
\* initiated so far are d seconds older.
Advance ==
    /\ ticks < MaxTicks
    /\ \E d \in Delays :
        /\ jar' = Expire(jar, d)
        /\ ticks' = ticks + 1
        /\ attempts' = [i \in 1..Len(attempts) |->
                            [attempts[i] EXCEPT !.age = @ + d]]
        /\ last' = [last EXCEPT !.elapsed = @ + d]
    /\ UNCHANGED <<env, inflight, hook>>

\* The browser loses one cookie (cleared by the user, blocked by an extension).
DropCookie ==
    \E n \in CookieNames :
        /\ jar[n] # AbsentCookie
        /\ jar' = [jar EXCEPT ![n] = AbsentCookie]
        /\ inflight' = {}
        /\ last' = Step("drop", NoRequest, NoTokenReply, NoUserinfoReply, NoHandler)
        /\ UNCHANGED <<env, attempts, ticks, hook>>

\* The deployment is restarted with other environment variables; the
\* browser keeps its cookies.
Redeploy ==
    \E e \in EnvValues \ {env} :
        /\ env' = e
        /\ inflight' = {}
        /\ last' = Step("redeploy", NoRequest, NoTokenReply, NoUserinfoReply, NoHandler)
        /\ UNCHANGED <<jar, attempts, ticks, hook>>

\* The flow: every request, in any order, the loss of cookies, redeployment.
Next == Login \/ Callback \/ Session \/ Logout \/ DropCookie \/ Redeploy

Spec == Init /\ [][Next]_vars

\* One sign-in followed through time: a single login, its callbacks, session
\* queries and logout, and the passage of time between them.
NextTimed == (Login /\ attempts = <<>>) \/ Callback \/ Session \/ Logout \/ Advance

SpecTimed == Init /\ [][NextTimed]_vars

----------------------------------------------------------------------------
(* Resolving the redirect URI: calls of buildRedirectUri, one after another *)

\* process.env of a deployment with credentials: the override and the public
\* base URL unset, empty or set.
RedirectEnvs ==
    {[Env("cid_test", "csc_test") EXCEPT !.CHUTES_OAUTH_REDIRECT_URI = r,
                                         !.NEXT_PUBLIC_APP_URL = p] :
        r \in {Undefined, "", REDIRECT_OVERRIDE},
        p \in {Undefined, "", PUBLIC_APP_URL, PUBLIC_APP_URL \o "/"}}

\* The origin a caller passes: none (the session route), or that of a request.
RequestOrigins == {Undefined, REQUEST_ORIGIN, OTHER_ORIGIN}

NoResolution == [requestOrigin |-> "none", redirectUri |-> "none"]

InitResolve ==
    /\ env \in RedirectEnvs
    /\ hook = NotMounted
    /\ jar = EmptyJar
    /\ attempts = <<>>
    /\ inflight = {}
    /\ ticks = 0
    /\ last = [op |-> "init", requestOrigin |-> "none", redirectUri |-> "none",
               before |-> NoResolution]

\* One call buildRedirectUri(requestOrigin); the call before it is remembered.
Resolve ==
    /\ \E o \in RequestOrigins :
           last' = [op |-> "resolve", requestOrigin |-> o,
                    redirectUri |-> buildRedirectUri(env, o),
                    before |-> [requestOrigin |-> last.requestOrigin,
                                redirectUri |-> last.redirectUri]]
    /\ UNCHANGED <<env, jar, attempts, inflight, ticks, hook>>

NextResolve == Resolve

SpecResolve == InitResolve /\ [][NextResolve]_vars

----------------------------------------------------------------------------
(* The client hook useChutesSession: refresh() and logout() in the page     *)

MaxRefreshes == 2   \* calls of refresh() in one behaviour

\* setSession({ signedIn: false })
SignedOutSession == [signedIn |-> FALSE, user |-> Undefined]

NoLogout == [pc |-> "idle", post |-> "none", refresh |-> 0]
NoBody == [none |-> TRUE]
NoAnswer == [kind |-> "none", body |-> NoBody]

\* useState({ signedIn: false }), useState(true); no call made yet
HookMounted ==
    [mounted |-> TRUE, session |-> SignedOutSession, loading |-> TRUE,
     refreshes |-> <<>>, logout |-> NoLogout]

\* Boolean(v) of the signedIn field of an answer
JsBoolean(v) == v = TRUE

\* What fetch("/api/auth/chutes/session") may give for a request that
\* carried these cookies: the answer of the route, an OK answer whose body
\* does not parse, a non-OK answer of the platform, or a network error.
SessionAnswers(cookies, e) ==
    {[kind |-> "ok", body |-> SessionGET(cookies, e, r).resp.body] : r \in UserinfoReplies}
    \cup {[kind |-> k, body |-> NoBody] : k \in {"ok_unparsable", "not_ok", "throws"}}

\* What fetch("/api/auth/chutes/logout", { method: "POST" }) may give
LogoutAnswers == {"ok", "not_ok", "throws"}

\* refresh() up to the await of its fetch: setLoading(true), request sent
RefreshStart(h, cookies, by) ==
    [h EXCEPT !.loading = TRUE,
              !.refreshes = Append(@, [by |-> by, pc |-> "inflight",
                                       cookies |-> cookies, answer |-> NoAnswer])]

\* The session refresh() sets for an answer: lines 34-41
SessionOf(answer) ==
    IF answer.kind = "ok"
    THEN [signedIn |-> JsBoolean(answer.body.signedIn),
          user |-> IF "user" \in DOMAIN answer.body THEN answer.body.user ELSE Undefined]
    ELSE SignedOutSession

\* Mutant: setLoading(false) follows the try/catch instead of sitting in a
\* finally block, and the catch rethrows: a fetch that throws leaves
\* loading set.
RefreshSettle_NoFinally(h, i, answer) ==
    [h EXCEPT !.session = SessionOf(answer),
              !.loading = IF answer.kind = "throws" THEN h.loading ELSE FALSE,
              !.refreshes[i].pc = "settled",
              !.refreshes[i].answer = answer]

\* refresh() from the answer of its fetch on: setSession, setLoading(false)
RefreshSettle(h, i, answer) ==
    [h EXCEPT !.session = SessionOf(answer),
              !.loading = FALSE,
              !.refreshes[i].pc = "settled",
              !.refreshes[i].answer = answer]

\* logout() up to the await of its fetch
LogoutStart(h) == [h EXCEPT !.logout = [pc |-> "posting", post |-> "none", refresh |-> 0]]

\* Mutant: the refresh runs after a POST that did not throw only (a plain
\* sequence instead of try/finally).
LogoutFinally_OnlyOnSuccess(h, cookies, post) ==
    IF post = "throws"
    THEN [h EXCEPT !.logout = [pc |-> "rejected", post |-> post, refresh |-> 0]]
    ELSE [RefreshStart(h, cookies, "logout") EXCEPT
              !.logout = [pc |-> "refreshing", post |-> post,
                          refresh |-> Len(h.refreshes) + 1]]

\* logout(): finally { await refresh() }, whatever the POST gave
LogoutFinally(h, cookies, post) ==
    LET started == RefreshStart(h, cookies, "logout")
    IN  [started EXCEPT !.logout = [pc |-> "refreshing", post |-> post,
                                    refresh |-> Len(started.refreshes)]]

\* logout() after its refresh: resolves, or rethrows the error of the POST
LogoutReturn(h) ==
    [h EXCEPT !.logout.pc = IF h.logout.post = "throws" THEN "rejected" ELSE "resolved"]

\* A jar of a signed-in browser, with and without cached profile
SignedInJar(withProfile) ==
    ApplySetCookies(EmptyJar,
        SessionCookies([access_token |-> AccessTokenOf(1), refresh_token |-> RefreshTokenOf(1),
                        expires_in |-> <<>>],
                       IF withProfile THEN Returned(UserOf(AccessTokenOf(1)))
                       ELSE Returned(Null)))

\* The record of a step of the hook: what happened, to which call of
\* refresh(), with which answer.
HookStep(op, call, answer) == [op |-> op, call |-> call, answer |-> answer]

InitHook ==
    /\ env = Env("cid_test", "csc_test")
    /\ jar \in {EmptyJar, SignedInJar(TRUE), SignedInJar(FALSE)}
    /\ attempts = <<>>
    /\ inflight = {}
    /\ ticks = 0
    /\ hook = NotMounted
    /\ last = [op |-> "init", call |-> 0, answer |-> NoAnswer]

\* The page mounts: useEffect runs the first refresh().
Mount ==
    /\ ~hook.mounted
    /\ hook' = RefreshStart(HookMounted, jar, "mount")
    /\ last' = HookStep("mount", 1, NoAnswer)
    /\ UNCHANGED <<env, jar, attempts, inflight, ticks>>

\* The page calls refresh().
ManualRefresh ==
    /\ hook.mounted
    /\ Len(hook.refreshes) < MaxRefreshes
    /\ hook' = RefreshStart(hook, jar, "manual")
    /\ last' = HookStep("refresh", Len(hook.refreshes) + 1, NoAnswer)
    /\ UNCHANGED <<env, jar, attempts, inflight, ticks>>

\* The fetch of one refresh() settles; a logout() that awaits it returns.
RefreshSettles ==
    /\ hook.mounted
    /\ \E i \in 1..Len(hook.refreshes) :
        /\ hook.refreshes[i].pc = "inflight"
        /\ \E answer \in SessionAnswers(hook.refreshes[i].cookies, env) :
            /\ hook' = (IF hook.logout.pc = "refreshing" /\ hook.logout.refresh = i
                        THEN LogoutReturn(RefreshSettle(hook, i, answer))
                        ELSE RefreshSettle(hook, i, answer))
            /\ last' = HookStep("refresh_settled", i, answer)
    /\ UNCHANGED <<env, jar, attempts, inflight, ticks>>

\* The page calls logout().
LogoutCalled ==
    /\ hook.mounted
    /\ hook.logout.pc \in {"idle", "resolved", "rejected"}
    /\ Len(hook.refreshes) < MaxRefreshes
    /\ hook' = LogoutStart(hook)
    /\ last' = HookStep("logout", 0, NoAnswer)
    /\ UNCHANGED <<env, jar, attempts, inflight, ticks>>

\* The POST of logout() settles: the browser applies the cookies of an OK
\* answer; then the refresh of the finally block starts.
LogoutPostSettles ==
    /\ hook.mounted
    /\ hook.logout.pc = "posting"
    /\ \E post \in LogoutAnswers :
        /\ jar' = (IF post = "ok" THEN ApplySetCookies(jar, LogoutPOST.resp.setCookies)
                   ELSE jar)
        /\ hook' = LogoutFinally(hook, jar', post)
        /\ last' = HookStep("logout_settled", Len(hook.refreshes) + 1,
                            [kind |-> post, body |-> NoBody])
    /\ UNCHANGED <<env, attempts, inflight, ticks>>

NextHook == Mount \/ ManualRefresh \/ RefreshSettles \/ LogoutCalled \/ LogoutPostSettles

SpecHook == InitHook /\ [][NextHook]_vars

----------------------------------------------------------------------------
(* A protected route: POST /api/chat, with getServerAccessToken             *)

NOT_AUTHENTICATED == "Not authenticated. Please sign in first."

\* What cookies() gives a route: the cookies of the request, or it throws.
CookieStore(readable, cookies) == [readable |-> readable, cookies |-> cookies]

\* Mutant: an empty cookie value is passed on as the token.
getServerAccessToken_EmptyPasses(store) ==
    IF ~store.readable THEN Null
    ELSE IF CookieGet(store.cookies, ACCESS_COOKIE) \in {Undefined, Null} THEN Null
    ELSE CookieGet(store.cookies, ACCESS_COOKIE)

\* store.get(COOKIE_ACCESS_TOKEN)?.value || null, and null when cookies()
\* throws
getServerAccessToken(store) ==
    IF ~store.readable THEN Null
    ELSE CookieOrNull(store.cookies, ACCESS_COOKIE)

\* The JSON bodies a chat request may carry: a message, none, or no JSON.
ChatBodies == {"hello", Undefined, "unparsable"}

\* What the completions endpoint may answer.
UpstreamReplies == {"throws", "ok_text", "ok_empty", "not_ok_message", "not_ok_plain"}

UpstreamRequest(token, message) ==
    [endpoint |-> "https://api.chutes.ai/v1/chat/completions",
     bearer |-> token,
     content |-> IF Falsy(message) THEN "Say hello!" ELSE message]

\* What one run of the chat route did: its response, the upstream requests.
ChatHandled(resp, upstreamRequests) ==
    [resp |-> resp, upstreamRequests |-> upstreamRequests,
     tokenRequests |-> <<>>, userinfoRequests |-> <<>>]

ChatPOST(store, body, upstreamReply) ==
    LET token == getServerAccessToken(store) IN
    IF Falsy(token)
    THEN ChatHandled(JsonResponse([error |-> NOT_AUTHENTICATED], 401), <<>>)
    ELSE IF body = "unparsable"
    THEN ChatHandled(JsonResponse([error |-> JSON_SYNTAX_ERROR], 500), <<>>)
    ELSE LET request == UpstreamRequest(token, body) IN
         IF upstreamReply = "throws"
         THEN ChatHandled(JsonResponse([error |-> FETCH_FAILED], 500), <<request>>)
         ELSE IF upstreamReply = "not_ok_message"
         THEN ChatHandled(JsonResponse([error |-> "Rate limit exceeded"], 429), <<request>>)
         ELSE IF upstreamReply = "not_ok_plain"
         THEN ChatHandled(JsonResponse([error |-> "API error: 429"], 429), <<request>>)
         ELSE ChatHandled(JsonResponse(
                              [text |-> IF upstreamReply = "ok_text" THEN "Hello!"
                                        ELSE "No response"], 200),
                          <<request>>)

\* The cookie store a chat request presents: the browser's jar, the same with
\* an empty access-token value, or a store that cannot be read.
ChatStores ==
    {CookieStore(r, c) :
        r \in BOOLEAN,
        c \in {jar, [jar EXCEPT ![ACCESS_COOKIE] = [val |-> "", ttl |-> @.ttl]]}}

\* A request arrives at the chat route; the completions endpoint replies to
\* the fetch the route makes (and only to that).
Chat ==
    \E store \in ChatStores, body \in ChatBodies :
        \E upstreamReply \in (IF ChatPOST(store, body, "none").upstreamRequests = <<>>
                              THEN {"none"} ELSE UpstreamReplies) :
            /\ last' = Step("chat", [store |-> store, body |-> body,
                                     upstreamReply |-> upstreamReply],
                            NoTokenReply, NoUserinfoReply,
                            ChatPOST(store, body, upstreamReply))
            /\ UNCHANGED <<env, jar, attempts, inflight, ticks, hook>>

\* One sign-in and its end, with requests to the protected route.
NextChat == (Login /\ attempts = <<>>) \/ Callback \/ Logout \/ Chat

SpecChat == Init /\ [][NextChat]_vars

----------------------------------------------------------------------------
(* Vocabulary of the properties: the most recent step *)

IsCallback == last.op = "callback"
Rq == last.rq
Resp == last.h.resp
Pre == last.pre

\* The response is the JSON error {error: msg} with the given status.
IsError(msg, status) ==
    /\ Resp.kind = "json"
    /\ Resp.status = status
    /\ Resp.body = [error |-> msg]

NoIdpRequest == last.h.tokenRequests = <<>> /\ last.h.userinfoRequests = <<>>
NoTokenRequest == last.h.tokenRequests = <<>>

\* Both credentials are set in the environment.
CredentialsSet ==
    /\ env.CHUTES_OAUTH_CLIENT_ID \notin {Undefined, ""}
    /\ env.CHUTES_OAUTH_CLIENT_SECRET \notin {Undefined, ""}

Stored(j, name) == j[name] # AbsentCookie

\* The response sets a cookie of this name to a non-empty value.
Writes(name) ==
    \E i \in 1..Len(Resp.setCookies) :
        Resp.setCookies[i].name = name /\ Resp.setCookies[i].val # ""

\* What a session query reports for a jar.
ReportsSignedIn(j) ==
    \A r \in UserinfoReplies : SessionGET(j, env, r).resp.body.signedIn
ReportsSignedOut(j) ==
    \A r \in UserinfoReplies : ~SessionGET(j, env, r).resp.body.signedIn

----------------------------------------------------------------------------
(* C1: a callback without provider error, with code and state, whose state  *)
(* is not the stored one                                                    *)

C1_Case ==
    /\ IsCallback
    /\ Rq.error \in {Null, ""}
    /\ Rq.code \notin {Null, ""}
    /\ Rq.state \notin {Null, ""}
    /\ (~Stored(Pre, STATE_COOKIE) \/ Rq.state # CookieGet(Pre, STATE_COOKIE))

\* C1 as stated: every callback without provider error and with code and
\* state whose stored state is absent or differs from the returned state is
\* rejected with "Invalid state" (400) and makes no request to the token or
\* the userinfo endpoint.
C1_Original ==
    C1_Case => IsError(INVALID_STATE, 400) /\ NoIdpRequest

\* C1 amended: such a callback makes no request to the token or the userinfo
\* endpoint, and is rejected with "Invalid state" (400) when the credentials
\* are configured, with the configuration error (500) when they are not.
C1_InvalidStateRejected ==
    C1_Case =>
        /\ NoIdpRequest
        /\ IF CredentialsSet THEN IsError(INVALID_STATE, 400)
           ELSE IsError(MISSING_CREDENTIALS, 500)

\* A state and a verifier are stored, the code is there, the returned state
\* is another one: rejected with "Invalid state".
C1_Witness ==
    /\ C1_Case
    /\ Stored(Pre, STATE_COOKIE)
    /\ Stored(Pre, VERIFIER_COOKIE)
    /\ IsError(INVALID_STATE, 400)

----------------------------------------------------------------------------
(* C2: who writes an access token *)

\* The callback of the most recent step passed every validation and its
\* token exchange returned an access token.
FullyValidatedCallback ==
    /\ IsCallback
    /\ Rq.error \in {Null, ""}
    /\ Rq.code \notin {Null, ""}
    /\ Rq.state \notin {Null, ""}
    /\ Stored(Pre, STATE_COOKIE)
    /\ Rq.state = CookieGet(Pre, STATE_COOKIE)
    /\ Stored(Pre, VERIFIER_COOKIE)
    /\ Len(last.h.tokenRequests) = 1
    /\ last.tokenReply.fetch = "responds"
    /\ last.tokenReply.ok
    /\ last.tokenReply.access_token \notin {Undefined, Null, ""}

\* C2: an access token is written to the session only by a callback without
\* provider error, with code and state, whose state equals the stored state,
\* that found a stored verifier and whose token exchange returned an access
\* token; no other step writes one or puts one into the jar.
C2_AccessTokenOnlyByValidatedCallback ==
    /\ Writes(ACCESS_COOKIE) =>
           /\ FullyValidatedCallback
           /\ \A i \in 1..Len(Resp.setCookies) :
                  Resp.setCookies[i].name = ACCESS_COOKIE =>
                      Resp.setCookies[i].val = last.tokenReply.access_token
    /\ (Stored(jar, ACCESS_COOKIE) /\ CookieGet(jar, ACCESS_COOKIE) # CookieGet(Pre, ACCESS_COOKIE))
           => FullyValidatedCallback

\* A validated callback stored the access token of its token response.
C2_Witness ==
    /\ FullyValidatedCallback
    /\ Writes(ACCESS_COOKIE)
    /\ CookieGet(jar, ACCESS_COOKIE) = last.tokenReply.access_token

----------------------------------------------------------------------------
(* C3: flow material is single-use *)

\* C3 as stated: after a callback of the attempt whose state is stored,
\* whatever its outcome, the stored state and verifier are absent, and the
\* same callback repeated makes no request to the token endpoint and fails
\* with "Invalid state" or "Missing PKCE verifier".
C3_FlowMaterialSingleUse ==
    (IsCallback /\ Stored(Pre, STATE_COOKIE) /\ Rq.state = CookieGet(Pre, STATE_COOKIE)) =>
        /\ ~Stored(jar, STATE_COOKIE)
        /\ ~Stored(jar, VERIFIER_COOKIE)
        /\ \A r \in TokenReplies(AttemptOf(Rq.state)), u \in UserinfoReplies :
               LET again == CallbackGET(Rq, jar, env, r, u)
               IN  /\ again.tokenRequests = <<>>
                   /\ (CredentialsSet /\ Rq.error \in {Null, ""}
                       /\ Rq.code \notin {Null, ""} /\ Rq.state \notin {Null, ""})
                          => again.resp.body \in {[error |-> INVALID_STATE],
                                                  [error |-> MISSING_PKCE_VERIFIER]}

----------------------------------------------------------------------------
(* C4: concurrent login attempts *)

\* C4 as stated: when logins are initiated one after the other before any
\* callback arrives, the callback of each of them, carrying its own state and
\* a code, is validated against its own flow material: it is not rejected with
\* "Invalid state" or "Missing PKCE verifier".
C4_AttemptsDoNotClobber ==
    (/\ IsCallback
     /\ CredentialsSet
     /\ Rq.error \in {Null, ""}
     /\ Rq.code \notin {Null, ""}
     /\ AttemptOf(Rq.state) \in last.inflight)
        => /\ ~IsError(INVALID_STATE, 400)
           /\ ~IsError(MISSING_PKCE_VERIFIER, 400)

----------------------------------------------------------------------------
(* C5: a callback that carries a provider error *)

C5_Case == IsCallback /\ Rq.error \notin {Null, ""}

\* C5: a callback with a provider error is rejected with status 400 and the
\* error and error_description it carried, unchanged; it resolves no
\* configuration, reads no stored state or verifier, makes no request to the
\* identity provider and sets no cookie, whatever else it carries and
\* whatever is stored.
C5_ProviderErrorShortCircuits ==
    C5_Case =>
        /\ Resp.kind = "json"
        /\ Resp.status = 400
        /\ Resp.body = [error |-> Rq.error, errorDescription |-> Rq.error_description]
        /\ last.h.configCalls = 0
        /\ last.h.cookieReads = 0
        /\ NoIdpRequest
        /\ Resp.setCookies = <<>>
        /\ jar = Pre

\* The provider error came with a code and the stored state, the verifier
\* stored and the credentials configured: everything else would have passed.
C5_Witness ==
    /\ C5_Case
    /\ CredentialsSet
    /\ Rq.code \notin {Null, ""}
    /\ Stored(Pre, STATE_COOKIE)
    /\ Rq.state = CookieGet(Pre, STATE_COOKIE)
    /\ Stored(Pre, VERIFIER_COOKIE)
    /\ Resp.status = 400

----------------------------------------------------------------------------
(* C6: the stored state matches, the stored verifier is absent *)

C6_Case ==
    /\ IsCallback
    /\ Rq.error \in {Null, ""}
    /\ Stored(Pre, STATE_COOKIE)
    /\ Rq.state = CookieGet(Pre, STATE_COOKIE)
    /\ ~Stored(Pre, VERIFIER_COOKIE)

\* C6 as stated: a callback without provider error whose state equals the
\* stored state and whose stored verifier is absent is rejected with "Missing
\* PKCE verifier" (400) and makes no request to the token endpoint.
C6_Original ==
    C6_Case => IsError(MISSING_PKCE_VERIFIER, 400) /\ NoTokenRequest

\* C6 amended: such a callback makes no request to the token endpoint; it is
\* rejected with "Missing PKCE verifier" (400) when the credentials are
\* configured and it carries a code, with "Missing code or state" (400) when
\* the code is missing, with the configuration error (500) when the
\* credentials are not configured.
C6_MissingVerifierRejected ==
    C6_Case =>
        /\ NoTokenRequest
        /\ IF ~CredentialsSet THEN IsError(MISSING_CREDENTIALS, 500)
           ELSE IF Rq.code \in {Null, ""} THEN IsError(MISSING_CODE_OR_STATE, 400)
           ELSE IsError(MISSING_PKCE_VERIFIER, 400)

\* The state matched, the code was there, the verifier was gone.
C6_Witness ==
    /\ C6_Case
    /\ Rq.code \notin {Null, ""}
    /\ IsError(MISSING_PKCE_VERIFIER, 400)

----------------------------------------------------------------------------
(* C7: code or state missing *)

C7_Case ==
    /\ IsCallback
    /\ Rq.error \in {Null, ""}
    /\ (Rq.code \in {Null, ""} \/ Rq.state \in {Null, ""})

\* C7 as stated: a callback without provider error whose code or state is
\* missing or empty is rejected with "Missing code or state" (400) and makes
\* no request to the token endpoint, whatever is stored.
C7_Original ==
    C7_Case => IsError(MISSING_CODE_OR_STATE, 400) /\ NoTokenRequest

\* C7 amended: such a callback makes no request to the token endpoint; it is
\* rejected with "Missing code or state" (400) when the credentials are
\* configured, with the configuration error (500) when they are not.
C7_MissingParameterRejected ==
    C7_Case =>
        /\ NoTokenRequest
        /\ IF CredentialsSet THEN IsError(MISSING_CODE_OR_STATE, 400)
           ELSE IsError(MISSING_CREDENTIALS, 500)

\* The code was there, the state was missing, and a state and a verifier
\* were stored.
C7_Witness ==
    /\ C7_Case
    /\ Rq.code \notin {Null, ""}
    /\ Stored(Pre, STATE_COOKIE)
    /\ Stored(Pre, VERIFIER_COOKIE)
    /\ IsError(MISSING_CODE_OR_STATE, 400)

----------------------------------------------------------------------------
(* C8: HTTP success without an access token *)

\* The token endpoint answered with HTTP success and a JSON object that has
\* no access token (none, or an empty one).
C8_Case ==
    /\ IsCallback
    /\ Len(last.h.tokenRequests) = 1
    /\ last.tokenReply.fetch = "responds"
    /\ last.tokenReply.ok
    /\ last.tokenReply.json = "object"
    /\ last.tokenReply.access_token \in {Undefined, Null, ""}

\* C8: such a callback is rejected with "No access token returned", not
\* redirected; it sets no cookie (no access token, refresh token or profile),
\* and a session query after it reports what one before it reported.
C8_NoAccessTokenRejected ==
    C8_Case =>
        /\ IsError(NO_ACCESS_TOKEN, 500)
        /\ Resp.setCookies = <<>>
        /\ jar = Pre
        /\ ReportsSignedIn(jar) = ReportsSignedIn(Pre)
        /\ ReportsSignedOut(jar) = ReportsSignedOut(Pre)

\* The body had a refresh token but no access token, and nobody was signed in.
C8_Witness ==
    /\ C8_Case
    /\ last.tokenReply.refresh_token \notin {Undefined, Null, ""}
    /\ ~Stored(jar, REFRESH_COOKIE)
    /\ ReportsSignedOut(jar)

----------------------------------------------------------------------------
(* C9: the token exchange fails *)

\* The token endpoint was asked and the fetch failed or answered with a
\* non-success status.
C9_Case ==
    /\ IsCallback
    /\ Len(last.h.tokenRequests) = 1
    /\ (last.tokenReply.fetch = "throws" \/ ~last.tokenReply.ok)

\* C9: such a callback is rejected (500) with the error of the exchange: the
\* provider's error_description, else its error code, else the message of the
\* failure; it sets no cookie, and its error is not "No access token
\* returned".
C9_ExchangeFailureSurfaced ==
    C9_Case =>
        /\ Resp.kind = "json"
        /\ Resp.status = 500
        /\ DOMAIN Resp.body = {"error"}
        /\ IF last.tokenReply.error_description \notin {Undefined, Null, ""}
           THEN Resp.body.error = last.tokenReply.error_description
           ELSE IF last.tokenReply.error \notin {Undefined, Null, ""}
           THEN Resp.body.error = last.tokenReply.error
           ELSE Resp.body.error \in {TOKEN_EXCHANGE_FAILED, FETCH_FAILED, JSON_SYNTAX_ERROR}
        /\ Resp.body.error # NO_ACCESS_TOKEN
        /\ Resp.setCookies = <<>>
        /\ jar = Pre

\* The provider answered with a non-success status and an error code.
C9_Witness ==
    /\ C9_Case
    /\ last.tokenReply.fetch = "responds"
    /\ last.tokenReply.error = "invalid_grant"
    /\ last.tokenReply.error_description = Undefined
    /\ IsError("invalid_grant", 500)

----------------------------------------------------------------------------
(* C10: logout *)

\* C10: logout answers { ok: true } from any state, and after it the access
\* token, refresh token, profile, state and verifier are all absent; a second
\* logout answers the same and leaves the store as empty.
C10_LogoutIdempotent ==
    last.op = "logout" =>
        /\ Resp.kind = "json"
        /\ Resp.status = 200
        /\ Resp.body = [ok |-> TRUE]
        /\ \A n \in CookieNames : ~Stored(jar, n)
        /\ LogoutPOST.resp.body = [ok |-> TRUE]
        /\ ApplySetCookies(jar, LogoutPOST.resp.setCookies) = jar

\* Logout while signed in (token, refresh token, profile) with a login in
\* flight (state, verifier).
C10_Witness ==
    /\ last.op = "logout"
    /\ \A n \in CookieNames : Stored(Pre, n)
    /\ jar = EmptyJar

----------------------------------------------------------------------------
(* C11: what the session query reports                                      *)

\* The jars that differ from j at most in the cached profile and the refresh
\* token: each of the two absent, or as any sign-in may have stored it.
SameAccessToken(j) ==
    {[j EXCEPT ![USERINFO_COOKIE] = u, ![REFRESH_COOKIE] = r] :
        u \in {AbsentCookie} \cup
              {[val |-> JsonStringify(p), ttl |-> DEFAULT_EXPIRES_IN] : p \in Profiles},
        r \in {AbsentCookie} \cup
              {[val |-> RefreshTokenOf(k), ttl |-> REFRESH_MAX_AGE] : k \in 0..MaxAttempts}}

\* C11: a session query answers signedIn = true exactly when an access token
\* is stored at that moment, and the answer is the same for every cached
\* profile and every refresh token stored next to it, whatever the userinfo
\* endpoint replies.
C11_SignedInIffAccessToken ==
    /\ last.op = "session" => (Resp.body.signedIn <=> Stored(Pre, ACCESS_COOKIE))
    /\ \A j \in SameAccessToken(jar) : \A r \in UserinfoReplies :
           SessionGET(j, env, r).resp.body.signedIn <=> Stored(jar, ACCESS_COOKIE)

\* A session query answers signed-out although a profile and a refresh token
\* are stored: the access token is gone.
C11_Witness ==
    /\ last.op = "session"
    /\ ~Resp.body.signedIn
    /\ Stored(Pre, USERINFO_COOKIE)
    /\ Stored(Pre, REFRESH_COOKIE)
    /\ ~Stored(Pre, ACCESS_COOKIE)

----------------------------------------------------------------------------
(* C12: the session query with an access token stored                       *)

C12_Case == last.op = "session" /\ Stored(Pre, ACCESS_COOKIE)

\* The profile the cookie of a jar caches (null: none, or unparsable).
CachedProfile(j) == CachedUser(CookieOrNull(j, USERINFO_COOKIE))

\* C12: a session query with an access token stored always answers 200 and
\* signed-in. A cached profile is returned without any fetch; without one
\* the route makes exactly one userinfo request when the configuration
\* resolves and none when it does not, and the user is the fetched profile
\* when the fetch returned one and null in every other case (non-success
\* response, network error, unresolvable configuration).
C12_SessionNeverFails ==
    C12_Case =>
        /\ Resp.kind = "json" /\ Resp.status = 200
        /\ Resp.body.signedIn
        /\ Resp.setCookies = <<>>
        /\ last.h.tokenRequests = <<>>
        /\ IF CachedProfile(Pre) # Null
           THEN /\ Resp.body.user = CachedProfile(Pre)
                /\ last.h.userinfoRequests = <<>>
           ELSE IF ~CredentialsSet
           THEN /\ Resp.body.user = Null
                /\ last.h.userinfoRequests = <<>>
           ELSE /\ Len(last.h.userinfoRequests) = 1
                /\ last.h.userinfoRequests[1].bearer = CookieGet(Pre, ACCESS_COOKIE)
                /\ Resp.body.user =
                       (IF last.userinfoReply = "ok_profile"
                        THEN UserOf(CookieGet(Pre, ACCESS_COOKIE)) ELSE Null)

\* The lazy fetch fails on the network and the answer is signed-in with no
\* user.
C12_Witness ==
    /\ C12_Case
    /\ CachedProfile(Pre) = Null
    /\ last.userinfoReply = "throws"
    /\ Resp.body = [signedIn |-> TRUE, user |-> Null]

\* The three other ways: unresolvable configuration, a non-success
\* response, and a cached profile.
C12_WitnessConfig ==
    C12_Case /\ CachedProfile(Pre) = Null /\ ~CredentialsSet /\ Resp.body.user = Null
C12_WitnessNotOk ==
    C12_Case /\ last.userinfoReply = "not_ok" /\ Resp.body.user = Null
C12_WitnessCached ==
    C12_Case /\ CachedProfile(Pre) # Null /\ Resp.body.user = CachedProfile(Pre)

----------------------------------------------------------------------------
(* C13: the userinfo fetch of the callback is best-effort                   *)

\* A callback that passed every validation and whose token exchange returned
\* an access token.
C13_Case ==
    /\ IsCallback
    /\ last.h.tokenRequests # <<>>
    /\ ~exchangeCodeForTokens(last.tokenReply).threw
    /\ ~NoAccessToken(last.tokenReply.access_token)

\* What the handler answers in that case, whatever the userinfo endpoint
\* replies: the redirect home, with the access token written, the refresh
\* token written when the reply carries one, and the profile written exactly
\* when the fetch returned one.
C13_AnswersSuccess ==
    C13_Case =>
        /\ Resp.kind = "redirect" /\ Resp.location = HomeUrl
        /\ Len(last.h.userinfoRequests) = 1
        /\ Writes(ACCESS_COOKIE)
        /\ Writes(REFRESH_COOKIE) <=> ~Falsy(last.tokenReply.refresh_token)
        /\ Writes(USERINFO_COOKIE) <=> last.userinfoReply = "ok_profile"

\* C13 as stated: such a callback reaches Authenticated whether or not the
\* userinfo fetch succeeds: it redirects home, the token bundle is stored
\* afterwards, and the profile is stored next to it only when the fetch
\* returned one.
C13_AuthenticatedEitherWay ==
    C13_Case =>
        /\ Resp.kind = "redirect" /\ Resp.location = HomeUrl
        /\ CookieGet(jar, ACCESS_COOKIE) = last.tokenReply.access_token
        /\ ~Falsy(last.tokenReply.refresh_token)
               => CookieGet(jar, REFRESH_COOKIE) = last.tokenReply.refresh_token
        /\ last.userinfoReply # "ok_profile"
               => CookieGet(jar, USERINFO_COOKIE) # JsonStringify(UserOf(last.tokenReply.access_token))
        /\ ReportsSignedIn(jar)

\* The same for the token replies whose lifetime is positive.
C13_AuthenticatedWhenLifetimePositive ==
    (C13_Case /\ ExpiresIn(last.tokenReply) > 0) =>
        /\ Resp.kind = "redirect" /\ Resp.location = HomeUrl
        /\ CookieGet(jar, ACCESS_COOKIE) = last.tokenReply.access_token
        /\ ~Falsy(last.tokenReply.refresh_token)
               => CookieGet(jar, REFRESH_COOKIE) = last.tokenReply.refresh_token
        /\ CookieGet(jar, USERINFO_COOKIE) = JsonStringify(UserOf(last.tokenReply.access_token))
               <=> last.userinfoReply = "ok_profile"
        /\ ReportsSignedIn(jar)

----------------------------------------------------------------------------
(* C14: login initiation with a valid configuration                         *)

C14_Case == last.op = "login" /\ CredentialsSet

\* The states and verifiers of the logins initiated before the last one.
EarlierStates == {attempts[i].state : i \in 1..(Len(attempts) - 1)}
EarlierVerifiers == {attempts[i].verifier : i \in 1..(Len(attempts) - 1)}

\* C14: login with both credentials configured makes no request to the
\* provider, stores a state and a verifier never issued before with a
\* lifetime of 300 seconds, and redirects to {idp}/idp/authorize with the
\* stored state, the challenge of the stored verifier, response_type=code,
\* the client id, the redirect URI, the scope and code_challenge_method=S256.
C14_LoginRedirects ==
    C14_Case =>
        /\ NoIdpRequest
        /\ Resp.kind = "redirect"
        /\ Resp.location.endpoint = IDP_BASE_URL \o "/idp/authorize"
        /\ jar[STATE_COOKIE].ttl = FLOW_MAX_AGE
        /\ jar[VERIFIER_COOKIE].ttl = FLOW_MAX_AGE
        /\ CookieGet(jar, STATE_COOKIE) \notin EarlierStates \cup {CookieGet(Pre, STATE_COOKIE), ""}
        /\ CookieGet(jar, VERIFIER_COOKIE)
               \notin EarlierVerifiers \cup {CookieGet(Pre, VERIFIER_COOKIE), ""}
        /\ Resp.location.state = CookieGet(jar, STATE_COOKIE)
        /\ Resp.location.code_challenge = Challenge(CookieGet(jar, VERIFIER_COOKIE))
        /\ Resp.location.code_challenge # CookieGet(jar, VERIFIER_COOKIE)
        /\ Resp.location.response_type = "code"
        /\ Resp.location.client_id = env.CHUTES_OAUTH_CLIENT_ID
        /\ Resp.location.redirect_uri = buildRedirectUri(env, REQUEST_ORIGIN)
        /\ Resp.location.scope = DEFAULT_SCOPES
        /\ Resp.location.code_challenge_method = "S256"

\* A second login, started while the material of the first is still stored.
C14_Witness ==
    /\ C14_Case
    /\ Len(attempts) = 2
    /\ Stored(Pre, STATE_COOKIE)
    /\ Resp.kind = "redirect"
    /\ Resp.location.state = CookieGet(jar, STATE_COOKIE)

----------------------------------------------------------------------------
(* C15: login initiation without credentials                                *)

C15_Case == last.op = "login" /\ ~CredentialsSet

\* C15: when the client id or the client secret is missing, resolving the
\* configuration throws the credentials error for every request origin, and
\* login answers that error (500) instead of a redirect, makes no request to
\* the provider, sets no cookie and leaves every stored cookie as it was.
C15_NoCredentialsNoFlow ==
    /\ ~CredentialsSet =>
           \A o \in BaseUrls \cup {Undefined} :
               getOAuthConfig(env, o) = Threw(MISSING_CREDENTIALS)
    /\ C15_Case =>
           /\ IsError(MISSING_CREDENTIALS, 500)
           /\ Resp.setCookies = <<>>
           /\ NoIdpRequest
           /\ jar = Pre

\* Login without the client secret while a session is stored.
C15_Witness ==
    /\ C15_Case
    /\ Falsy(env.CHUTES_OAUTH_CLIENT_SECRET)
    /\ Stored(Pre, ACCESS_COOKIE)
    /\ Stored(Pre, REFRESH_COOKIE)
    /\ jar = Pre

----------------------------------------------------------------------------
(* C16: the order in which the redirect URI is resolved                     *)

C16_Override == ~Falsy(env.CHUTES_OAUTH_REDIRECT_URI)
C16_PublicBase == ~Falsy(env.NEXT_PUBLIC_APP_URL)

\* C16: the redirect URI is the override when one is set; else the public
\* base URL (without a trailing slash) followed by the callback path when
\* one is set; else the origin of the current request followed by the
\* callback path when one is passed; else the localhost URI. It is the same
\* value the configuration carries, and a call for an origin B that follows
\* a call for another origin A, with no override and no public base, yields
\* the URI of B and not the one returned for A.
C16_RedirectUriFirstMatch ==
    last.op = "resolve" =>
        /\ C16_Override => last.redirectUri = REDIRECT_OVERRIDE
        /\ (~C16_Override /\ C16_PublicBase)
               => last.redirectUri = PUBLIC_APP_URL \o CALLBACK_PATH
        /\ (~C16_Override /\ ~C16_PublicBase /\ ~Falsy(last.requestOrigin))
               => last.redirectUri = last.requestOrigin \o CALLBACK_PATH
        /\ (~C16_Override /\ ~C16_PublicBase /\ Falsy(last.requestOrigin))
               => last.redirectUri = LOCALHOST_REDIRECT
        /\ getOAuthConfig(env, last.requestOrigin).value.redirectUri = last.redirectUri
        /\ (/\ ~C16_Override /\ ~C16_PublicBase
            /\ ~Falsy(last.requestOrigin) /\ ~Falsy(last.before.requestOrigin)
            /\ last.before.requestOrigin \notin {"none", last.requestOrigin})
               => /\ last.redirectUri = last.requestOrigin \o CALLBACK_PATH
                  /\ last.redirectUri # last.before.redirectUri

\* Resolved for the origin of one request, then for another origin, with
\* neither override nor public base: the second URI is built from the second
\* origin.
C16_Witness ==
    /\ last.op = "resolve"
    /\ ~C16_Override /\ ~C16_PublicBase
    /\ last.before = [requestOrigin |-> REQUEST_ORIGIN,
                      redirectUri |-> REQUEST_ORIGIN \o CALLBACK_PATH]
    /\ last.requestOrigin = OTHER_ORIGIN
    /\ last.redirectUri = OTHER_ORIGIN \o CALLBACK_PATH

\* The public base URL wins over the origin of the request.
C16_WitnessPublicBase ==
    /\ last.op = "resolve"
    /\ ~C16_Override /\ env.NEXT_PUBLIC_APP_URL = PUBLIC_APP_URL \o "/"
    /\ last.requestOrigin = REQUEST_ORIGIN
    /\ last.redirectUri = PUBLIC_APP_URL \o CALLBACK_PATH

----------------------------------------------------------------------------
(* C17: the flow material expires                                           *)

\* The age the login of the returned state had when the request arrived.
AgeAtRequest == attempts[AttemptOf(Rq.state)].age - last.elapsed

\* A callback that carries the state of a login initiated at least 300
\* seconds before it.
C17_Case ==
    /\ IsCallback
    /\ AttemptOf(Rq.state) # 0
    /\ AgeAtRequest >= FLOW_MAX_AGE

\* C17: 300 seconds after a login its state and verifier are no longer
\* stored, whether or not a callback arrived in between; a callback that
\* carries the state of that login after the window, whatever its code,
\* finds neither cookie, is rejected with a JSON error and makes no request
\* to the token or the userinfo endpoint.
C17_FlowMaterialExpires ==
    /\ \A i \in 1..Len(attempts) :
           attempts[i].age >= FLOW_MAX_AGE =>
               /\ CookieGet(jar, STATE_COOKIE) # attempts[i].state
               /\ CookieGet(jar, VERIFIER_COOKIE) # attempts[i].verifier
    /\ C17_Case =>
           /\ ~Stored(Pre, STATE_COOKIE)
           /\ ~Stored(Pre, VERIFIER_COOKIE)
           /\ Resp.kind = "json"
           /\ Resp.status \in {400, 500}
           /\ Resp.setCookies = <<>>
           /\ NoIdpRequest
           /\ (CredentialsSet /\ ~ProviderError(Rq.error) /\ ~MissingCodeOrState(Rq.code, Rq.state))
                  => IsError(INVALID_STATE, 400)

\* The callback with the state of the login and a code arrives exactly 300
\* seconds after the login, with nothing else in between, and is rejected.
C17_Witness ==
    /\ C17_Case
    /\ AgeAtRequest = FLOW_MAX_AGE
    /\ Rq.code = "code1"
    /\ CredentialsSet
    /\ IsError(INVALID_STATE, 400)

\* Before the window has passed the same callback is exchanged.
C17_WitnessInTime ==
    /\ IsCallback
    /\ AttemptOf(Rq.state) # 0
    /\ AgeAtRequest = 120
    /\ Len(last.h.tokenRequests) = 1

----------------------------------------------------------------------------
(* C18: the lifetime of the session                                         *)

\* The most recent request is a callback that answered the success redirect.
C18_Case == IsCallback /\ Resp.kind = "redirect"

\* The lifetime the claim names: expires_in of the token response, 3600
\* seconds when the response has none.
C18_Lifetime ==
    IF last.tokenReply.expires_in = <<>> THEN 3600 ELSE last.tokenReply.expires_in[1]

\* C18: as long as nothing but time has followed a successful callback, a
\* session query reports signed-in while fewer than expires_in seconds (3600
\* without expires_in) have passed since the callback, and signed-out from
\* then on.
C18_SignedInForLifetime ==
    C18_Case =>
        IF last.elapsed < C18_Lifetime
        THEN ReportsSignedIn(jar) /\ CookieGet(jar, ACCESS_COOKIE) = last.tokenReply.access_token
        ELSE ReportsSignedOut(jar)

\* The token response had no expires_in: signed in after 420 seconds, ...
C18_WitnessDefaultAlive ==
    /\ C18_Case
    /\ last.tokenReply.expires_in = <<>>
    /\ last.elapsed = 120 + FLOW_MAX_AGE
    /\ ReportsSignedIn(jar)

\* ... signed out after 3600.
C18_Witness ==
    /\ C18_Case
    /\ last.tokenReply.expires_in = <<>>
    /\ last.elapsed = 3600
    /\ ReportsSignedOut(jar)

\* expires_in = 120: signed in at issuance, signed out 120 seconds later.
C18_WitnessShortAlive ==
    C18_Case /\ last.tokenReply.expires_in = <<120>> /\ last.elapsed = 0 /\ ReportsSignedIn(jar)
C18_WitnessShortExpired ==
    C18_Case /\ last.tokenReply.expires_in = <<120>> /\ last.elapsed = 120 /\ ReportsSignedOut(jar)

----------------------------------------------------------------------------
(* C20: no automatic retries                                                *)

\* The fetch the request made was answered with a failure.
TokenFetchFailed ==
    last.h.tokenRequests # <<>> /\ exchangeCodeForTokens(last.tokenReply).threw
UserinfoFetchFailed ==
    last.h.userinfoRequests # <<>> /\ last.userinfoReply \in {"throws", "not_ok"}

\* C20: one callback makes at most one request to the token endpoint and at
\* most one to the userinfo endpoint, one session query makes at most one
\* request to the userinfo endpoint and none to the token endpoint, login and
\* logout make none; a request that failed is not repeated.
C20_NoRetries ==
    /\ Len(last.h.tokenRequests) <= 1
    /\ Len(last.h.userinfoRequests) <= 1
    /\ last.op # "callback" => last.h.tokenRequests = <<>>
    /\ last.op \notin {"callback", "session"} => last.h.userinfoRequests = <<>>
    /\ TokenFetchFailed => Len(last.h.tokenRequests) = 1 /\ last.h.userinfoRequests = <<>>
    /\ UserinfoFetchFailed => Len(last.h.userinfoRequests) = 1

\* A callback whose token exchange fails on the network: one request.
C20_Witness ==
    /\ IsCallback
    /\ last.tokenReply.fetch = "throws"
    /\ Len(last.h.tokenRequests) = 1

\* A callback and a session query whose userinfo fetch fails: one request.
C20_WitnessCallbackUserinfo ==
    IsCallback /\ UserinfoFetchFailed /\ Len(last.h.tokenRequests) = 1
C20_WitnessSession ==
    last.op = "session" /\ UserinfoFetchFailed /\ Len(last.h.userinfoRequests) = 1

----------------------------------------------------------------------------
(* C21: the error of a token exchange answered with a non-success status    *)

\* The token endpoint was asked and answered with a non-success status.
C21_Case ==
    /\ IsCallback
    /\ Len(last.h.tokenRequests) = 1
    /\ last.tokenReply.fetch = "responds"
    /\ ~last.tokenReply.ok

\* The ways an error message may carry a raw HTTP status.
NonSuccessStatuses == {400, 401, 403, 500, 502, 503}
RawStatusMessages ==
    UNION {{ToString(s), "HTTP " \o ToString(s), "status " \o ToString(s),
            TOKEN_EXCHANGE_FAILED \o ": " \o ToString(s),
            TOKEN_EXCHANGE_FAILED \o " (" \o ToString(s) \o ")"} : s \in NonSuccessStatuses}

\* C21 as stated: the error of such an exchange carries the provider's error
\* description or error code when the body has one, and otherwise the raw
\* HTTP status.
C21_Original ==
    C21_Case =>
        IF ~Falsy(last.tokenReply.error_description)
        THEN Resp.body.error = last.tokenReply.error_description
        ELSE IF ~Falsy(last.tokenReply.error)
        THEN Resp.body.error = last.tokenReply.error
        ELSE Resp.body.error \in RawStatusMessages

\* C21 amended: the error carries the provider's error description when the
\* body has one, else its error code when the body has one, else the fixed
\* message "Token exchange failed"; when the body is not JSON it is the
\* parse error. The HTTP status is in none of them.
C21_NonSuccessErrorMessage ==
    /\ \A k \in 0..MaxAttempts : \A r \in TokenReplies(k) :
           (r.fetch = "responds" /\ ~r.ok) =>
               /\ exchangeCodeForTokens(r).threw
               /\ exchangeCodeForTokens(r).message =
                      (IF r.json = "invalid" THEN JSON_SYNTAX_ERROR
                       ELSE IF r.error_description \notin {Undefined, Null, ""}
                       THEN r.error_description
                       ELSE IF r.error \notin {Undefined, Null, ""} THEN r.error
                       ELSE "Token exchange failed")
               /\ exchangeCodeForTokens(r).message \notin RawStatusMessages
    /\ C21_Case => IsError(exchangeCodeForTokens(last.tokenReply).message, 500)

\* A non-success status with a body that has neither description nor code.
C21_Witness ==
    /\ C21_Case
    /\ last.tokenReply.json = "object"
    /\ last.tokenReply.error_description = Undefined
    /\ last.tokenReply.error = Undefined
    /\ IsError("Token exchange failed", 500)

\* Description and code both present: the description is reported.
C21_WitnessDescription ==
    /\ C21_Case
    /\ last.tokenReply.error = "invalid_grant"
    /\ IsError("Code expired", 500)

----------------------------------------------------------------------------
(* C22: the responses of login and callback carry no secret                 *)

\* The secrets the application holds: the client secret, and every PKCE
\* verifier it has generated or finds stored.
Secrets ==
    ({env.CHUTES_OAUTH_CLIENT_SECRET}
        \cup {attempts[i].verifier : i \in 1..Len(attempts)}
        \cup {CookieGet(Pre, VERIFIER_COOKIE), CookieGet(jar, VERIFIER_COOKIE)})
    \ {Undefined, Null, ""}

\* The strings of the response the caller reads: the parameters of the URL
\* it is redirected to, or the fields of the JSON body.
ResponseStrings ==
    IF Resp.kind = "redirect"
    THEN {Resp.location[f] : f \in DOMAIN Resp.location}
    ELSE {Resp.body[f] : f \in DOMAIN Resp.body}

\* C22: no response of login or callback has the client secret or a PKCE
\* verifier in its redirect URL or its JSON body; the authorize URL has the
\* challenge, which is not the verifier; and the token request, which does
\* carry both, goes to the token endpoint only.
C22_NoSecretInResponse ==
    last.op \in {"login", "callback"} =>
        /\ ResponseStrings \cap Secrets = {}
        /\ (last.op = "login" /\ Resp.kind = "redirect") =>
               /\ "client_secret" \notin DOMAIN Resp.location
               /\ "code_verifier" \notin DOMAIN Resp.location
               /\ Resp.location.code_challenge = Challenge(CookieGet(jar, VERIFIER_COOKIE))
        /\ \A i \in 1..Len(last.h.tokenRequests) :
               last.h.tokenRequests[i].endpoint = IDP_BASE_URL \o "/idp/token"

\* A callback that sent the secret and the verifier to the token endpoint
\* and reports the failure of the exchange.
C22_Witness ==
    /\ IsCallback
    /\ Len(last.h.tokenRequests) = 1
    /\ last.h.tokenRequests[1].client_secret \in Secrets
    /\ last.h.tokenRequests[1].code_verifier \in Secrets
    /\ Resp.kind = "json" /\ Resp.status = 500
    /\ ResponseStrings \cap Secrets = {}

\* A login that has set the verifier cookie and redirects with the challenge.
C22_WitnessLogin ==
    /\ last.op = "login" /\ Resp.kind = "redirect"
    /\ CookieGet(jar, VERIFIER_COOKIE) \in Secrets
    /\ ResponseStrings \cap Secrets = {}

----------------------------------------------------------------------------
(* C23: logout() of the client hook                                         *)

\* The refresh() that logout() has started (0: none yet).
LogoutRefresh == hook.logout.refresh

\* C23: when the POST of logout() settles, with an OK answer, a non-OK
\* answer or a network error, a refresh() starts in the same step, with the
\* cookies as they are after the POST; logout() returns only after that
\* refresh has settled; and a refresh() whose fetch gives a non-OK answer or
\* throws sets the session to signed-out and loading to false.
C23_LogoutAlwaysRefreshes ==
    /\ last.op = "logout_settled" =>
           /\ last.answer.kind \in LogoutAnswers
           /\ hook.logout.pc = "refreshing"
           /\ LogoutRefresh = Len(hook.refreshes)
           /\ hook.refreshes[LogoutRefresh] =
                  [by |-> "logout", pc |-> "inflight", cookies |-> jar, answer |-> NoAnswer]
           /\ hook.loading
    /\ (hook.mounted /\ hook.logout.pc \in {"resolved", "rejected"}) =>
           /\ LogoutRefresh # 0
           /\ hook.refreshes[LogoutRefresh].by = "logout"
           /\ hook.refreshes[LogoutRefresh].pc = "settled"
    /\ (hook.mounted /\ hook.logout.pc = "posting") => LogoutRefresh = 0
    /\ (last.op = "refresh_settled" /\ last.answer.kind \in {"not_ok", "throws"}) =>
           /\ hook.session = [signedIn |-> FALSE, user |-> Undefined]
           /\ ~hook.loading

\* The POST of logout() threw, its refresh ran and settled, and logout()
\* rethrew the error.
C23_Witness ==
    /\ hook.mounted
    /\ hook.logout = [pc |-> "rejected", post |-> "throws", refresh |-> Len(hook.refreshes)]
    /\ hook.refreshes[LogoutRefresh].pc = "settled"

\* The same after a non-OK answer and after an OK answer of the POST.
C23_WitnessNotOk ==
    hook.mounted /\ hook.logout.pc = "resolved" /\ hook.logout.post = "not_ok"
C23_WitnessOk ==
    hook.mounted /\ hook.logout.pc = "resolved" /\ hook.logout.post = "ok"

\* A refresh of a signed-in browser that throws: the hook says signed-out.
C23_WitnessRefreshThrows ==
    /\ last.op = "refresh_settled"
    /\ last.answer.kind = "throws"
    /\ Stored(hook.refreshes[last.call].cookies, ACCESS_COOKIE)
    /\ ~hook.session.signedIn

----------------------------------------------------------------------------
(* C24: the protected route never calls upstream without an access token    *)

\* The access token the store of the request holds ("": none that counts).
C24_StoredToken ==
    IF ~Rq.store.readable \/ Rq.store.cookies[ACCESS_COOKIE] = AbsentCookie THEN ""
    ELSE Rq.store.cookies[ACCESS_COOKIE].val

\* C24: getServerAccessToken gives null when the access-token cookie is
\* absent or empty or the store cannot be read, and the stored token
\* otherwise; without a token the chat route answers 401 and makes no
\* upstream request, and every upstream request it makes carries the stored
\* token as bearer.
C24_NoUpstreamWithoutToken ==
    last.op = "chat" =>
        /\ getServerAccessToken(Rq.store) =
               (IF C24_StoredToken = "" THEN Null ELSE C24_StoredToken)
        /\ C24_StoredToken = "" =>
               /\ IsError(NOT_AUTHENTICATED, 401)
               /\ last.h.upstreamRequests = <<>>
        /\ Len(last.h.upstreamRequests) <= 1
        /\ \A i \in 1..Len(last.h.upstreamRequests) :
               /\ last.h.upstreamRequests[i].bearer = C24_StoredToken
               /\ last.h.upstreamRequests[i].bearer \notin {"", Null, Undefined}

\* The access-token cookie is there with an empty value: 401.
C24_Witness ==
    /\ last.op = "chat"
    /\ Rq.store.readable
    /\ Rq.store.cookies[ACCESS_COOKIE] # AbsentCookie
    /\ Rq.store.cookies[ACCESS_COOKIE].val = ""
    /\ Resp.status = 401
    /\ last.h.upstreamRequests = <<>>

C24_WitnessUnreadable ==
    /\ last.op = "chat" /\ ~Rq.store.readable /\ Rq.store.cookies = jar
    /\ Stored(jar, ACCESS_COOKIE) /\ Resp.status = 401
C24_WitnessAbsent ==
    /\ last.op = "chat" /\ Rq.store = CookieStore(TRUE, jar) /\ ~Stored(jar, ACCESS_COOKIE)
    /\ Stored(jar, REFRESH_COOKIE) /\ Resp.status = 401
C24_WitnessUpstream ==
    last.op = "chat" /\ Len(last.h.upstreamRequests) = 1 /\ Resp.status = 200

----------------------------------------------------------------------------
(* C25: a successful callback cannot be repeated                            *)

\* The most recent request is a callback that answered the success redirect.
C25_Succeeded == IsCallback /\ Resp.kind = "redirect"

\* A callback that repeats the request of an attempt whose token is stored:
\* the callback of that attempt has succeeded before.
C25_Repeat ==
    /\ IsCallback
    /\ AttemptOf(Rq.state) # 0
    /\ CookieGet(Pre, ACCESS_COOKIE) = AccessTokenOf(AttemptOf(Rq.state))
    /\ Rq.code = "code1" /\ Rq.error = Null
    /\ CredentialsSet

\* C25: after a callback has succeeded the stored state and verifier are
\* gone, and the same request again, whatever the provider would reply, is
\* rejected with "Invalid state" (400) and makes no request to the token
\* endpoint; so is every later repeat of it while the configuration is valid.
C25_RepeatAfterSuccessRejected ==
    /\ C25_Succeeded =>
           /\ ~Stored(jar, STATE_COOKIE) /\ ~Stored(jar, VERIFIER_COOKIE)
           /\ \A r \in TokenReplies(AttemptOf(Rq.state)), u \in UserinfoReplies :
                  LET again == CallbackGET(Rq, jar, env, r, u)
                  IN  /\ again.resp = JsonResponse([error |-> INVALID_STATE], 400)
                      /\ again.tokenRequests = <<>>
                      /\ again.userinfoRequests = <<>>
    /\ C25_Repeat => IsError(INVALID_STATE, 400) /\ NoIdpRequest

\* The repeat itself: the callback of an attempt arrives again after it has
\* signed the user in, and is rejected.
C25_Witness ==
    /\ C25_Repeat
    /\ ~Stored(Pre, STATE_COOKIE)
    /\ IsError(INVALID_STATE, 400)
    /\ jar = Pre

----------------------------------------------------------------------------
(* C26: the order of the rejections of a callback                           *)

\* The rejection conditions, read off the request and the jar before it.
C26_ProviderError == Rq.error \notin {Null, ""}
C26_MissingParameter == Rq.code \in {Null, ""} \/ Rq.state \in {Null, ""}
C26_StateMismatch == ~Stored(Pre, STATE_COOKIE) \/ CookieGet(Pre, STATE_COOKIE) # Rq.state
C26_VerifierAbsent == ~Stored(Pre, VERIFIER_COOKIE)

\* C26: with valid configuration a callback for which several rejection
\* conditions hold reports the first of: provider error, missing code or
\* state, invalid state, missing verifier; and one for which none holds
\* reports none of them.
C26_RejectionOrder ==
    (IsCallback /\ CredentialsSet) =>
        IF C26_ProviderError
        THEN /\ Resp.status = 400
             /\ Resp.body = [error |-> Rq.error, errorDescription |-> Rq.error_description]
        ELSE IF C26_MissingParameter THEN IsError(MISSING_CODE_OR_STATE, 400)
        ELSE IF C26_StateMismatch THEN IsError(INVALID_STATE, 400)
        ELSE IF C26_VerifierAbsent THEN IsError(MISSING_PKCE_VERIFIER, 400)
        ELSE /\ Len(last.h.tokenRequests) = 1
             /\ ~(Resp.kind = "json" /\ Resp.status = 400)

\* A mismatched state with an absent verifier: Invalid state.
C26_Witness ==
    /\ IsCallback /\ CredentialsSet
    /\ ~C26_ProviderError /\ ~C26_MissingParameter
    /\ Stored(Pre, STATE_COOKIE) /\ C26_StateMismatch /\ C26_VerifierAbsent
    /\ IsError(INVALID_STATE, 400)

\* A missing code with a mismatched state: Missing code or state.
C26_WitnessMissingCode ==
    /\ IsCallback /\ CredentialsSet
    /\ ~C26_ProviderError
    /\ Rq.code = Null /\ Rq.state = "forged" /\ Stored(Pre, STATE_COOKIE)
    /\ IsError(MISSING_CODE_OR_STATE, 400)

\* A provider error together with a code and a mismatched state.
C26_WitnessProviderError ==
    /\ IsCallback /\ CredentialsSet
    /\ C26_ProviderError /\ Rq.code = "code1" /\ C26_StateMismatch
    /\ Resp.body.error = "access_denied"

\* The state matches and only the verifier is gone.
C26_WitnessVerifier ==
    /\ IsCallback /\ CredentialsSet
    /\ ~C26_ProviderError /\ ~C26_MissingParameter /\ ~C26_StateMismatch
    /\ C26_VerifierAbsent
    /\ IsError(MISSING_PKCE_VERIFIER, 400)

----------------------------------------------------------------------------
(* C27: the one response of every callback                                  *)

\* The token endpoint did not answer with a success that parses.
C27_ExchangeFailed ==
    \/ last.tokenReply.fetch = "throws"
    \/ last.tokenReply.json = "invalid"
    \/ ~last.tokenReply.ok

\* The error body is {error: text} with some text.
C27_JsonErrorText == Resp.kind = "json" /\ DOMAIN Resp.body = {"error"}

\* C27: every callback ends with the redirect to the home page or with a
\* JSON error: status 400 for a provider error, a missing parameter, an
\* invalid state and a missing verifier; status 500 for a configuration
\* failure, a failed token exchange and a token response without an access
\* token; what configuration resolution or the exchange throws is answered
\* by the handler as such a 500.
C27_OneResponse ==
    IsCallback =>
        IF C26_ProviderError
        THEN /\ Resp.kind = "json" /\ Resp.status = 400
             /\ Resp.body.error = Rq.error
        ELSE IF ~CredentialsSet THEN IsError(MISSING_CREDENTIALS, 500)
        ELSE IF C26_MissingParameter THEN IsError(MISSING_CODE_OR_STATE, 400)
        ELSE IF C26_StateMismatch THEN IsError(INVALID_STATE, 400)
        ELSE IF C26_VerifierAbsent THEN IsError(MISSING_PKCE_VERIFIER, 400)
        ELSE IF C27_ExchangeFailed THEN C27_JsonErrorText /\ Resp.status = 500
        ELSE IF last.tokenReply.access_token \in {Undefined, Null, ""}
        THEN IsError(NO_ACCESS_TOKEN, 500)
        ELSE /\ Resp.kind = "redirect" /\ Resp.status = 307
             /\ Resp.location = HomeUrl

\* The token endpoint could not be reached: the handler answers 500 with
\* the message of the exception.
C27_Witness ==
    /\ IsCallback /\ CredentialsSet
    /\ last.tokenReply.fetch = "throws"
    /\ Len(last.h.tokenRequests) = 1
    /\ IsError(FETCH_FAILED, 500)

\* The configuration cannot be resolved: 500.
C27_WitnessConfig ==
    /\ IsCallback /\ ~CredentialsSet /\ ~C26_ProviderError
    /\ IsError(MISSING_CREDENTIALS, 500)

\* The token response has no access token: 500.
C27_WitnessNoAccessToken ==
    /\ IsCallback /\ ~C27_ExchangeFailed
    /\ Len(last.h.tokenRequests) = 1
    /\ IsError(NO_ACCESS_TOKEN, 500)

\* The success: the redirect to the home page.
C27_WitnessSuccess ==
    /\ IsCallback /\ Resp.kind = "redirect" /\ Resp.location = HomeUrl

----------------------------------------------------------------------------
(* C28: a rejected callback and the session                                 *)

\* The callback did not end with the redirect of a success.
C28_Rejected == IsCallback /\ Resp.kind # "redirect"

SessionCookieNames == {ACCESS_COOKIE, REFRESH_COOKIE, USERINFO_COOKIE}

\* C28: after a rejected callback the stored access token, refresh token
\* and cached profile are those stored before it, and a session query
\* reports what it would have reported before it.
C28_RejectionKeepsSession ==
    C28_Rejected =>
        /\ \A n \in SessionCookieNames : jar[n] = Pre[n]
        /\ ReportsSignedIn(jar) <=> ReportsSignedIn(Pre)
        /\ ReportsSignedOut(jar) <=> ReportsSignedOut(Pre)

\* A signed-in user whose browser sends a callback with a forged state.
C28_Witness ==
    /\ C28_Rejected
    /\ IsError(INVALID_STATE, 400)
    /\ Stored(Pre, ACCESS_COOKIE) /\ Stored(Pre, REFRESH_COOKIE)
    /\ ReportsSignedIn(jar)

\* A signed-in user starts a second login whose exchange fails.
C28_WitnessExchange ==
    /\ C28_Rejected
    /\ Len(last.h.tokenRequests) = 1
    /\ Stored(Pre, ACCESS_COOKIE) /\ Stored(Pre, USERINFO_COOKIE)
    /\ ReportsSignedIn(jar)

\* A signed-out user stays signed out.
C28_WitnessSignedOut ==
    /\ C28_Rejected
    /\ Len(last.h.tokenRequests) = 1
    /\ ReportsSignedOut(Pre) /\ ReportsSignedOut(jar)

----------------------------------------------------------------------------
(* C29: logout between a login initiation and its callback                  *)

\* The callback of a login initiated earlier (its state, with a code and
\* without provider error, under valid configuration), after a logout that
\* followed that login.
C29_Case ==
    /\ IsCallback /\ CredentialsSet
    /\ ~C26_ProviderError /\ ~C26_MissingParameter
    /\ AttemptOf(Rq.state) # 0
    /\ attempts[AttemptOf(Rq.state)].loggedOut

\* C29: such a callback is rejected with Invalid state and makes no call to
\* the token endpoint, whatever happened between the logout and it.
C29_LogoutCancelsLogin ==
    C29_Case => IsError(INVALID_STATE, 400) /\ NoTokenRequest

\* Login, logout, then the callback of that login: nothing is stored.
C29_Witness ==
    /\ C29_Case
    /\ Len(attempts) = 1
    /\ ~Stored(Pre, STATE_COOKIE) /\ ~Stored(Pre, VERIFIER_COOKIE)
    /\ IsError(INVALID_STATE, 400) /\ NoTokenRequest

\* Login, logout, a second login, then the callback of the first.
C29_WitnessSecondLogin ==
    /\ C29_Case
    /\ Len(attempts) = 2 /\ AttemptOf(Rq.state) = 1
    /\ Stored(Pre, STATE_COOKIE)
    /\ CookieGet(Pre, STATE_COOKIE) = attempts[2].state
    /\ IsError(INVALID_STATE, 400)

----------------------------------------------------------------------------
(* C30: the stored refresh token and the stored access token                *)

\* A callback that succeeded and left an access token stored.
C30_Case ==
    /\ IsCallback /\ Resp.kind = "redirect"
    /\ Stored(jar, ACCESS_COOKIE)
    /\ CookieGet(jar, ACCESS_COOKIE) = last.tokenReply.access_token

\* C30: after a successful callback a stored refresh token is the one of the
\* token response that issued the stored access token; a refresh token of an
\* earlier session is not kept next to the new access token.
C30_RefreshTokenOfSameResponse ==
    C30_Case =>
        (Stored(jar, REFRESH_COOKIE) =>
             CookieGet(jar, REFRESH_COOKIE) = last.tokenReply.refresh_token)

\* The part that holds: when the token response carries a refresh token, it
\* replaces the stored one.
C30_IssuedRefreshTokenReplaces ==
    (C30_Case /\ last.tokenReply.refresh_token \notin {Undefined, Null, ""}) =>
        CookieGet(jar, REFRESH_COOKIE) = last.tokenReply.refresh_token

----------------------------------------------------------------------------
(* C31: the cached profile and the stored access token                      *)

\* A callback that succeeded and left its access token stored.
C31_Case ==
    /\ IsCallback /\ Resp.kind = "redirect"
    /\ Stored(jar, ACCESS_COOKIE)
    /\ CookieGet(jar, ACCESS_COOKIE) = last.tokenReply.access_token

\* C31: after a successful callback the user a following session query
\* reports is the profile of the access token now stored, or none; a profile
\* cached by an earlier session is not reported for the new access token.
C31_ProfileOfStoredToken ==
    C31_Case =>
        \A r \in UserinfoReplies :
            SessionGET(jar, env, r).resp.body.user
                \in {Null, UserOf(CookieGet(jar, ACCESS_COOKIE))}

\* The part that holds: when the userinfo fetch of the callback returns a
\* profile, that profile replaces the cached one.
C31_FetchedProfileReplaces ==
    (C31_Case /\ last.userinfoReply = "ok_profile") =>
        \A r \in UserinfoReplies :
            SessionGET(jar, env, r).resp.body.user = UserOf(CookieGet(jar, ACCESS_COOKIE))

----------------------------------------------------------------------------
(* C32: a success redirect leaves the session signed in                     *)

\* C32: after every callback that answers with the success redirect a
\* session query reports signedIn = true, whatever expires_in the token
\* response carried.
C32_SuccessIsSignedIn ==
    (IsCallback /\ Resp.kind = "redirect") => ReportsSignedIn(jar)

\* The part that holds: the same for the token responses whose expires_in is
\* absent or positive.
C32_SignedInWhenLifetimePositive ==
    (/\ IsCallback /\ Resp.kind = "redirect"
     /\ (last.tokenReply.expires_in = <<>> \/ last.tokenReply.expires_in[1] > 0))
        => ReportsSignedIn(jar)

\* A first sign-in whose token response carries a non-positive expires_in:
\* the redirect is answered and no session exists.
C32_SignedOutAfterSuccess ==
    /\ IsCallback /\ Resp.kind = "redirect"
    /\ last.tokenReply.expires_in \in {<<0>>, <<-1>>}
    /\ ReportsSignedOut(jar)

----------------------------------------------------------------------------
(* C33: the stored state and the stored verifier are one attempt's          *)

\* Both pieces of flow material are stored.
C33_BothStored == Stored(jar, STATE_COOKIE) /\ Stored(jar, VERIFIER_COOKIE)

\* A callback that asked the token endpoint.
C33_Exchange == IsCallback /\ Len(last.h.tokenRequests) = 1

\* C33: whenever state and verifier are both stored they are those of one
\* login initiation and have the same remaining lifetime; a login
\* initiation that redirects stores both, a successful callback and a
\* logout leave neither; and the verifier sent in a token exchange is the
\* one whose challenge went out in the authorize URL that carried the
\* state the callback validated.
C33_FlowMaterialOfOneAttempt ==
    /\ C33_BothStored =>
           /\ \E i \in 1..Len(attempts) :
                  /\ CookieGet(jar, STATE_COOKIE) = attempts[i].state
                  /\ CookieGet(jar, VERIFIER_COOKIE) = attempts[i].verifier
           /\ jar[STATE_COOKIE].ttl = jar[VERIFIER_COOKIE].ttl
    /\ (last.op = "login" /\ Resp.kind = "redirect") => C33_BothStored
    /\ (last.op = "logout" \/ (IsCallback /\ Resp.kind = "redirect")) =>
           ~Stored(jar, STATE_COOKIE) /\ ~Stored(jar, VERIFIER_COOKIE)
    /\ C33_Exchange =>
           LET i == AttemptOf(Rq.state)
               sent == last.h.tokenRequests[1].code_verifier
           IN  /\ i # 0
               /\ sent = attempts[i].verifier
               /\ attempts[i].authorizeUrl.state = Rq.state
               /\ attempts[i].authorizeUrl.code_challenge = "challenge" \o ToString(i)
               /\ sent = "verifier" \o ToString(i)

\* The callback of the second of two logins exchanges the second verifier.
C33_Witness ==
    /\ C33_Exchange
    /\ Len(attempts) = 2 /\ AttemptOf(Rq.state) = 2
    /\ last.h.tokenRequests[1].code_verifier = attempts[2].verifier
    /\ Resp.kind = "redirect"
    /\ ~Stored(jar, STATE_COOKIE) /\ ~Stored(jar, VERIFIER_COOKIE)

\* A second login while the material of the first is still stored.
C33_WitnessOverwrite ==
    /\ last.op = "login" /\ Len(attempts) = 2
    /\ CookieGet(Pre, STATE_COOKIE) = attempts[1].state
    /\ CookieGet(jar, STATE_COOKIE) = attempts[2].state
    /\ CookieGet(jar, VERIFIER_COOKIE) = attempts[2].verifier

----------------------------------------------------------------------------
(* Login and callback under every redirect-URI configuration; the requests *)
(* reach the deployment under several origins.                              *)

\* The origin of the overriding redirect URI
OVERRIDE_ORIGIN == "https://override.example"

\* new URL(req.url).origin of the requests: the deployment's own host,
\* another host, the public URL, the host of the overriding redirect URI.
ArrivalOrigins == {REQUEST_ORIGIN, OTHER_ORIGIN, PUBLIC_APP_URL, OVERRIDE_ORIGIN}

\* new URL(url).origin of a redirect URI
OriginOfUrl(url) ==
    IF url = REDIRECT_OVERRIDE THEN OVERRIDE_ORIGIN
    ELSE IF \E o \in ArrivalOrigins : url = o \o CALLBACK_PATH
    THEN CHOOSE o \in ArrivalOrigins : url = o \o CALLBACK_PATH
    ELSE "http://localhost:3000"

InitRedirect ==
    /\ env \in RedirectEnvs
    /\ hook = NotMounted
    /\ jar = EmptyJar
    /\ attempts = <<>>
    /\ inflight = {}
    /\ ticks = 0
    /\ last = [origin |-> "none"]
              @@ [op |-> "init", rq |-> NoRequest, pre |-> EmptyJar, inflight |-> {},
                  tokenReply |-> NoTokenReply, userinfoReply |-> NoUserinfoReply,
                  h |-> NoHandler, elapsed |-> 0]

\* A browser asks for the login route at some origin; the credentials are
\* set, so the route redirects. One sign-in is followed.
LoginAt ==
    /\ attempts = <<>>
    /\ \E o \in ArrivalOrigins :
        LET k == Len(attempts) + 1
            h == LoginGETAt(env, k, o)
        IN  /\ jar' = ApplySetCookies(jar, h.resp.setCookies)
            /\ attempts' = Append(attempts,
                                  [state |-> generateState(k),
                                   verifier |-> generateVerifier(k),
                                   authorizeUrl |-> h.resp.location,
                                   age |-> 0,
                                   loggedOut |-> FALSE])
            /\ last' = [origin |-> o]
                       @@ Step("login", NoRequest, NoTokenReply, NoUserinfoReply, h)
    /\ UNCHANGED <<env, inflight, ticks, hook>>

\* The callbacks the provider sends: a code and the state of a login.
ProviderCallbacks ==
    {CallbackRequest("code1", attempts[i].state, Null, Null) : i \in 1..Len(attempts)}

\* A callback request arrives at some origin.
CallbackAt ==
    /\ \E o \in ArrivalOrigins, rq \in ProviderCallbacks :
        LET asked == CallbackGETAt(rq, jar, env, NoTokenReply, NoUserinfoReply, o)
        IN  \E tokenReply \in (IF asked.tokenRequests = <<>> THEN {NoTokenReply}
                               ELSE TokenReplies(AttemptOf(rq.state))) :
            \E userinfoReply \in
                   (IF CallbackGETAt(rq, jar, env, tokenReply, NoUserinfoReply, o).userinfoRequests = <<>>
                    THEN {NoUserinfoReply} ELSE UserinfoReplies) :
                LET h == CallbackGETAt(rq, jar, env, tokenReply, userinfoReply, o)
                IN  /\ jar' = ApplySetCookies(jar, h.resp.setCookies)
                    /\ last' = [origin |-> o]
                               @@ Step("callback", rq, tokenReply, userinfoReply, h)
    /\ UNCHANGED <<env, attempts, inflight, ticks, hook>>

NextRedirect == LoginAt \/ CallbackAt

SpecRedirect == InitRedirect /\ [][NextRedirect]_vars

----------------------------------------------------------------------------
(* C34: the redirect_uri of the token exchange                              *)

\* A callback that asked the token endpoint, having arrived at the redirect
\* URI that the login initiation of its attempt computed.
C34_Case ==
    /\ IsCallback
    /\ Len(last.h.tokenRequests) = 1
    /\ AttemptOf(Rq.state) # 0
    /\ last.origin = OriginOfUrl(attempts[AttemptOf(Rq.state)].authorizeUrl.redirect_uri)

\* C34: the redirect_uri of that token request is the redirect_uri of the
\* authorize URL of the same attempt.
C34_SameRedirectUri ==
    C34_Case =>
        last.h.tokenRequests[1].redirect_uri
            = attempts[AttemptOf(Rq.state)].authorizeUrl.redirect_uri

\* The redirect URI comes from the origin of the request.
C34_Witness ==
    /\ C34_Case
    /\ Falsy(env.CHUTES_OAUTH_REDIRECT_URI) /\ Falsy(env.NEXT_PUBLIC_APP_URL)
    /\ last.origin = OTHER_ORIGIN
    /\ last.h.tokenRequests[1].redirect_uri = OTHER_ORIGIN \o CALLBACK_PATH

\* The redirect URI is the override.
C34_WitnessOverride ==
    /\ C34_Case
    /\ last.h.tokenRequests[1].redirect_uri = REDIRECT_OVERRIDE

\* The redirect URI comes from the public base URL, written with a slash.
C34_WitnessPublicBase ==
    /\ C34_Case
    /\ env.NEXT_PUBLIC_APP_URL = PUBLIC_APP_URL \o "/"
    /\ last.h.tokenRequests[1].redirect_uri = PUBLIC_APP_URL \o CALLBACK_PATH

\* A callback that arrives elsewhere than login computed sends another
\* redirect_uri than the authorize URL carried.
C34_WitnessElsewhere ==
    /\ IsCallback /\ Len(last.h.tokenRequests) = 1
    /\ last.h.tokenRequests[1].redirect_uri
           # attempts[AttemptOf(Rq.state)].authorizeUrl.redirect_uri

----------------------------------------------------------------------------
(* C35: what a login initiation changes                                     *)

C35_Case == last.op = "login"

\* C35: a login initiation leaves the stored access token, refresh token
\* and cached profile as they were, so a session query reports what it
\* reported before; when it redirects, the stored state and verifier are
\* the ones it has just drawn, and when it fails it changes nothing.
C35_LoginChangesFlowMaterialOnly ==
    C35_Case =>
        /\ \A n \in {ACCESS_COOKIE, REFRESH_COOKIE, USERINFO_COOKIE} : jar[n] = Pre[n]
        /\ ReportsSignedIn(jar) <=> ReportsSignedIn(Pre)
        /\ IF Resp.kind = "redirect"
           THEN /\ CookieGet(jar, STATE_COOKIE) = Resp.location.state
                /\ CookieGet(jar, STATE_COOKIE) = attempts[Len(attempts)].state
                /\ CookieGet(jar, VERIFIER_COOKIE) = attempts[Len(attempts)].verifier
                /\ CookieGet(jar, STATE_COOKIE) # CookieGet(Pre, STATE_COOKIE)
                /\ CookieGet(jar, VERIFIER_COOKIE) # CookieGet(Pre, VERIFIER_COOKIE)
           ELSE jar = Pre

\* A signed-in user starts a new login and stays signed in.
C35_Witness ==
    /\ C35_Case /\ Resp.kind = "redirect"
    /\ Stored(Pre, ACCESS_COOKIE) /\ Stored(Pre, REFRESH_COOKIE) /\ Stored(Pre, USERINFO_COOKIE)
    /\ ReportsSignedIn(jar)

\* The flow material of an earlier login is overwritten.
C35_WitnessOverwrite ==
    /\ C35_Case /\ Len(attempts) = 2
    /\ CookieGet(Pre, STATE_COOKIE) = attempts[1].state
    /\ CookieGet(Pre, VERIFIER_COOKIE) = attempts[1].verifier
    /\ CookieGet(jar, STATE_COOKIE) = attempts[2].state

\* A login that fails for lack of credentials, with a session stored.
C35_WitnessFailed ==
    /\ C35_Case /\ Resp.kind = "json"
    /\ Stored(Pre, ACCESS_COOKIE)

----------------------------------------------------------------------------
(* C36: the session query writes nothing                                    *)

C36_Case == last.op = "session"

\* An access token is stored, no profile that parses is cached, and the
\* configuration resolves: the query fetches the profile lazily.
C36_LazyFetch(j) ==
    /\ Stored(j, ACCESS_COOKIE) /\ CookieGet(j, ACCESS_COOKIE) # ""
    /\ ~(\E u \in Profiles : CookieGet(j, USERINFO_COOKIE) = JsonStringify(u))
    /\ CredentialsSet

\* C36: a session query sets no cookie and leaves all five stored values as
\* they were; when it fetched the profile lazily it made one userinfo
\* request, and the query that follows it makes one again, whatever the
\* first one obtained.
C36_SessionWritesNothing ==
    C36_Case =>
        /\ Resp.setCookies = <<>>
        /\ jar = Pre
        /\ C36_LazyFetch(Pre) =>
               /\ Len(last.h.userinfoRequests) = 1
               /\ \A r \in UserinfoReplies :
                      Len(SessionGET(jar, env, r).userinfoRequests) = 1

\* A lazy fetch that returned the profile; it is answered and not stored.
C36_Witness ==
    /\ C36_Case /\ C36_LazyFetch(Pre)
    /\ last.userinfoReply = "ok_profile"
    /\ Resp.body.user = UserOf(CookieGet(Pre, ACCESS_COOKIE))
    /\ ~Stored(jar, USERINFO_COOKIE)

\* A query answered from the cached profile.
C36_WitnessCached ==
    /\ C36_Case /\ Stored(Pre, USERINFO_COOKIE) /\ Stored(Pre, ACCESS_COOKIE)
    /\ last.h.userinfoRequests = <<>>

----------------------------------------------------------------------------
(* The cached profile as a cookie the browser holds: it may come back       *)
(* damaged. The session route and getServerUserInfo read it.                *)

\* A profile cookie cut short: JSON.parse throws on it.
TRUNCATED_PROFILE == "{sub:"

\* store.get(COOKIE_USERINFO)?.value, parsed; null when the cookie is
\* absent or empty, when it does not parse, and when cookies() throws
getServerUserInfo(store) ==
    IF ~store.readable THEN Null
    ELSE LET raw == CookieGet(store.cookies, USERINFO_COOKIE) IN
         IF Falsy(raw) THEN Null
         ELSE LET parsed == JsonParse(raw)
              IN  IF parsed.threw THEN Null ELSE parsed.value

\* What a call of a server helper did: the value it returned.
HelperReturned(value) ==
    [resp |-> [kind |-> "return", value |-> value, setCookies |-> <<>>],
     tokenRequests |-> <<>>, userinfoRequests |-> <<>>]

\* The cached profile comes back from the browser cut short.
Tamper ==
    /\ Stored(jar, USERINFO_COOKIE)
    /\ CookieGet(jar, USERINFO_COOKIE) # TRUNCATED_PROFILE
    /\ jar' = [jar EXCEPT ![USERINFO_COOKIE] = [val |-> TRUNCATED_PROFILE, ttl |-> @.ttl]]
    /\ last' = Step("tamper", NoRequest, NoTokenReply, NoUserinfoReply, NoHandler)
    /\ UNCHANGED <<env, attempts, inflight, ticks, hook>>

\* A server component calls getServerUserInfo(); cookies() gives it the
\* browser's jar or throws.
UserInfoRead ==
    \E readable \in BOOLEAN :
        /\ last' = Step("userinfo", [store |-> CookieStore(readable, jar)],
                        NoTokenReply, NoUserinfoReply,
                        HelperReturned(getServerUserInfo(CookieStore(readable, jar))))
        /\ UNCHANGED <<env, jar, attempts, inflight, ticks, hook>>

\* One sign-in, session queries and reads of the cached profile.
NextProfile ==
    (Login /\ attempts = <<>>) \/ Callback \/ Session \/ Redeploy \/ Tamper \/ UserInfoRead

SpecProfile == Init /\ [][NextProfile]_vars

----------------------------------------------------------------------------
(* C37: a cached profile that does not parse                                *)

\* An access token is stored and the stored profile does not parse.
C37_Unparsable(j) ==
    /\ Stored(j, ACCESS_COOKIE)
    /\ Stored(j, USERINFO_COOKIE)
    /\ \A u \in Profiles : CookieGet(j, USERINFO_COOKIE) # JsonStringify(u)

\* C37: with such an entry the session query reports signed-in and goes on
\* to the lazy fetch: with resolvable configuration it makes one userinfo
\* request and returns the profile fetched, or user = null when the fetch
\* gives none; without, it returns user = null; and getServerUserInfo
\* returns null.
C37_UnparsableIsNoProfile ==
    /\ (last.op = "session" /\ C37_Unparsable(Pre)) =>
           /\ Resp.status = 200
           /\ Resp.body.signedIn = TRUE
           /\ IF CredentialsSet
              THEN /\ Len(last.h.userinfoRequests) = 1
                   /\ last.h.userinfoRequests[1].bearer = CookieGet(Pre, ACCESS_COOKIE)
                   /\ Resp.body.user =
                          (IF last.userinfoReply = "ok_profile"
                           THEN UserOf(CookieGet(Pre, ACCESS_COOKIE)) ELSE Null)
              ELSE /\ last.h.userinfoRequests = <<>>
                   /\ Resp.body.user = Null
    /\ (last.op = "userinfo" /\ C37_Unparsable(jar)) => Resp.value = Null

\* The session query meets the damaged entry and fetches the profile.
C37_Witness ==
    /\ last.op = "session" /\ C37_Unparsable(Pre)
    /\ last.userinfoReply = "ok_profile"
    /\ Resp.body = [signedIn |-> TRUE, user |-> UserOf(CookieGet(Pre, ACCESS_COOKIE))]

\* The lazy fetch fails: signed in, user = null.
C37_WitnessFetchFails ==
    /\ last.op = "session" /\ C37_Unparsable(Pre)
    /\ last.userinfoReply = "throws"
    /\ Resp.body = [signedIn |-> TRUE, user |-> Null]

\* getServerUserInfo reads the damaged entry from a readable store.
C37_WitnessHelper ==
    /\ last.op = "userinfo" /\ C37_Unparsable(jar)
    /\ Rq.store.readable
    /\ Resp.value = Null

\* getServerUserInfo returns a profile that parses.
C37_WitnessHelperParses ==
    /\ last.op = "userinfo"
    /\ Resp.value \in Profiles

----------------------------------------------------------------------------
(* C38: the lifetimes of the cookies a callback stores                      *)

\* A successful callback, and whatever time has passed since.
C38_Case == IsCallback /\ Resp.kind = "redirect"

\* expires_in of the token response, 3600 when it has none
C38_Lifetime ==
    IF last.tokenReply.expires_in = <<>> THEN 3600 ELSE last.tokenReply.expires_in[1]

\* The Max-Age values with which the response sets a cookie to a value.
C38_MaxAges(name) ==
    {Resp.setCookies[i].maxAge :
        i \in {n \in 1..Len(Resp.setCookies) :
                   Resp.setCookies[n].name = name /\ Resp.setCookies[n].val # ""}}

\* C38: a successful callback stores the access token and, when it caches
\* one, the profile with the lifetime expires_in (3600 when absent), and the
\* refresh token, when it stores one, for 30 days whatever expires_in is;
\* afterwards the profile is stored exactly as long as the access token is,
\* never beyond it, while the refresh token stays for its 30 days.
C38_ProfileLivesWithAccessToken ==
    C38_Case =>
        /\ C38_MaxAges(ACCESS_COOKIE) = {C38_Lifetime}
        /\ C38_MaxAges(USERINFO_COOKIE) \subseteq {C38_Lifetime}
        /\ C38_MaxAges(REFRESH_COOKIE) \subseteq {60 * 60 * 24 * 30}
        /\ Stored(jar, USERINFO_COOKIE) =>
               /\ Stored(jar, ACCESS_COOKIE)
               /\ jar[USERINFO_COOKIE].ttl = jar[ACCESS_COOKIE].ttl
               /\ last.elapsed < C38_Lifetime
        /\ (last.userinfoReply = "ok_profile" /\ last.elapsed < C38_Lifetime) =>
               Stored(jar, USERINFO_COOKIE)
        /\ last.tokenReply.refresh_token \notin {Undefined, Null, ""} =>
               (Stored(jar, REFRESH_COOKIE) <=> last.elapsed < 60 * 60 * 24 * 30)

\* Two minutes after a callback with expires_in 120: the access token and
\* the profile are gone, the refresh token is still stored.
C38_Witness ==
    /\ C38_Case
    /\ last.tokenReply.expires_in = <<120>> /\ last.userinfoReply = "ok_profile"
    /\ last.elapsed = 120
    /\ ~Stored(jar, ACCESS_COOKIE) /\ ~Stored(jar, USERINFO_COOKIE)
    /\ Stored(jar, REFRESH_COOKIE)

\* Before that both are stored.
C38_WitnessAlive ==
    /\ C38_Case
    /\ last.userinfoReply = "ok_profile" /\ last.tokenReply.expires_in = <<>>
    /\ last.elapsed = 120 + FLOW_MAX_AGE
    /\ Stored(jar, ACCESS_COOKIE) /\ Stored(jar, USERINFO_COOKIE)

\* After 30 days the refresh token is gone too.
C38_WitnessRefreshGone ==
    /\ C38_Case
    /\ last.tokenReply.refresh_token = RefreshTokenOf(1)
    /\ last.elapsed >= REFRESH_MAX_AGE
    /\ ~Stored(jar, REFRESH_COOKIE)

----------------------------------------------------------------------------
(* C39: overlapping calls of refresh() in the hook                          *)

\* Every request of the hook has settled, and refresh() ran at least once.
C39_AllSettled ==
    /\ hook.mounted
    /\ hook.refreshes # <<>>
    /\ \A i \in 1..Len(hook.refreshes) : hook.refreshes[i].pc = "settled"
    /\ hook.logout.pc # "posting"

\* C39: once all requests have settled, the session of the hook is the one
\* of the answer to the refresh started last, and loading is false.
C39_LastStartedWins ==
    C39_AllSettled =>
        /\ hook.session = SessionOf(hook.refreshes[Len(hook.refreshes)].answer)
        /\ hook.loading = FALSE

\* The part that holds: once all requests have settled, loading is false and
\* the session is the one of the answer that arrived last.
C39_LastArrivedWins ==
    C39_AllSettled =>
        /\ hook.loading = FALSE
        /\ last.op = "refresh_settled" => hook.session = SessionOf(last.answer)

\* A logout completed, its refresh answered signed-out, and the answer of
\* the refresh started on mount, arriving after it, signed the hook in.
C39_SignedInAfterLogout ==
    /\ C39_AllSettled
    /\ hook.logout.pc = "resolved" /\ hook.logout.post = "ok"
    /\ hook.refreshes[hook.logout.refresh].answer.kind = "ok"
    /\ hook.refreshes[hook.logout.refresh].answer.body.signedIn = FALSE
    /\ ~Stored(jar, ACCESS_COOKIE)
    /\ hook.session.signedIn = TRUE

----------------------------------------------------------------------------
(* The hook when every request it sends is answered or fails in the end     *)

\* fetch settles: a started refresh() gets its answer, and so does the POST
\* of logout().
SpecHookFair ==
    /\ InitHook /\ [][NextHook]_vars
    /\ WF_vars(RefreshSettles)
    /\ WF_vars(LogoutPostSettles)

----------------------------------------------------------------------------
(* C40: loading, and what isSignedIn rests on                               *)

\* The answer is OK and its signedIn is truthy.
C40_OkSignedIn(answer) == answer.kind = "ok" /\ answer.body.signedIn = TRUE

\* One step of the hook: a start of refresh() sets loading; an answer to a
\* refresh() clears it, whatever the answer, and makes isSignedIn true
\* exactly when the answer is OK with a truthy signedIn; no other step
\* touches the session.
C40_Step ==
    /\ last'.op \in {"mount", "refresh", "logout_settled"} => hook'.loading = TRUE
    /\ last'.op = "refresh_settled" =>
           /\ hook'.loading = FALSE
           /\ hook'.session.signedIn = C40_OkSignedIn(last'.answer)
    /\ (hook.mounted /\ last'.op # "refresh_settled") => hook'.session = hook.session
    /\ ~hook.mounted => hook'.session.signedIn = FALSE

\* C40: loading is set at the start of every refresh and cleared when a
\* refresh settles, with an OK answer, a non-OK answer or a thrown error;
\* isSignedIn is true only if the answer applied last was OK with a truthy
\* signedIn; and when every request settles in the end, a mounted hook
\* always reaches loading = false.
C40_LoadingEnds ==
    /\ [][C40_Step]_vars
    /\ hook.mounted ~> (hook.mounted /\ hook.loading = FALSE)

\* A refresh whose fetch threw has settled: loading is false, signed out.
C40_Witness ==
    /\ hook.mounted
    /\ last.op = "refresh_settled" /\ last.answer.kind = "throws"
    /\ hook.loading = FALSE /\ hook.session.signedIn = FALSE

\* A refresh answered OK and signed in.
C40_WitnessSignedIn ==
    /\ hook.mounted
    /\ last.op = "refresh_settled" /\ C40_OkSignedIn(last.answer)
    /\ hook.loading = FALSE /\ hook.session.signedIn = TRUE

\* A non-OK answer.
C40_WitnessNotOk ==
    /\ hook.mounted
    /\ last.op = "refresh_settled" /\ last.answer.kind = "not_ok"
    /\ hook.loading = FALSE /\ hook.session.signedIn = FALSE

\* With overlapping calls, loading is false while the refresh started later
\* is still in flight.
C40_WitnessOverlap ==
    /\ hook.mounted /\ hook.loading = FALSE
    /\ \E i \in 1..Len(hook.refreshes) : hook.refreshes[i].pc = "inflight"

====
